---- MODULE Spec2Model ----
(***************************************************************************)
(* Model of MultiSourceZoneVisitorCounter (src/zone_counter.py): the zone  *)
(* registry, the debounce buffer, the dwell tracker, the stale reaper and  *)
(* update_counts, together with the zone CRUD operations.                  *)
(*                                                                         *)
(* Time is wall-clock time in ticks of 0.1 s (10 ticks = 1 second); every  *)
(* datetime.now() taken inside one call is the same tick.  A Python dict   *)
(* is a function whose DOMAIN is its key set; None is NoTime.              *)
(***************************************************************************)
EXTENDS Integers, Sequences, FiniteSets, TLC

(* ------------------------------ bounds --------------------------------- *)
MaxTime == 200
MaxCount == 4
MaxBatch == 2
ScenarioMaxTime == 29
ScenarioMaxCount == 5
MaxRuns == 3
CameraMaxTime == 5
ZonesMaxTime == 5
ConcurrentMaxTime == 4
PipelineMaxTime == 4
DwellMaxTime == 5
ReaperMaxTime == 6
PaddingMax == 41
MaxThreshold == 3
DebounceMaxTime == 7
FramesMaxTime == 3
MaxCrowd == 4
SharedMaxTime == 6

Deltas == {0, 100, 1201}
ScenarioDeltas == {1, 5}

(* --------------------------- program constants ------------------------- *)
zone_padding == 10
StaleThreshold == 300
DwellStaleThreshold == 1200

NoTime == -1

Cameras == {"camera1"}
ZoneNames == {"zone1"}
Persons == {7}

(* x, y of the centre points the pipeline reports (3-tuples id, x, y) *)
Points == {<<960, 500>>, <<700, 400>>, <<100, 100>>}

(* rectangles offered to create_or_update_zone: two valid, one degenerate *)
Rects == { <<(<<640, 360>>), (<<1280, 700>>)>>,
           <<(<<0, 0>>), (<<400, 400>>)>>,
           <<(<<10, 10>>), (<<10, 50>>)>> }

DEFAULT_ZONE_CONFIG ==
  [z \in {"zone1"} |->
     [top_left |-> <<640, 360>>, bottom_right |-> <<1280, 700>>,
      in_count |-> 0, out_count |-> 0, inside_ids |-> {}, history |-> <<>>]]

VARIABLES
  data,                 \* camera -> zone -> zone record
  inside_zones,         \* camera -> zone -> set of person ids
  person_zone_history,  \* camera -> zone -> dict (never filled)
  person_state_buffer,  \* camera -> zone -> person -> debounce state
  person_dwell_tracker, \* camera -> zone -> person -> dwell record
  default_zone_config,  \* the module-level dict DEFAULT_ZONE_CONFIG
  shared,               \* <<camera, zone>>: the zone dict is the default's
  zone_order,           \* camera -> zone names in dict insertion order
  active_camera,
  min_dwell_frames, min_dwell_time, exit_grace_time,
  now,                  \* wall clock
  op,                   \* the call that produced this state
  active_person_ids,    \* locals of the last update_counts call
  entries_to_count,     \*   zone -> list of ids
  exits_to_count,       \*   zone -> list of ids
  raw_run,              \* history: run of raw observations per triple
  counted_n,            \* history: qualified entries per dwell record
  sc,                   \* history: the current run of frames of person 7
  frame                 \* the pipeline thread inside update_counts

vars == <<data, inside_zones, person_zone_history, person_state_buffer,
          person_dwell_tracker, default_zone_config, shared, zone_order,
          active_camera, min_dwell_frames,
          min_dwell_time, exit_grace_time, now, op, active_person_ids,
          entries_to_count, exits_to_count, raw_run, counted_n, sc, frame>>

(* the registry and its tracking sub-state *)
registry == <<data, inside_zones, person_zone_history, person_state_buffer,
              person_dwell_tracker, default_zone_config, shared, zone_order>>

config == <<min_dwell_frames, min_dwell_time, exit_grace_time>>

(* ------------------------------ dict helpers --------------------------- *)
EmptyDict == <<>>

Put(f, k, v) == [x \in (DOMAIN f) \cup {k} |-> IF x = k THEN v ELSE f[x]]

Del(f, k) == [x \in (DOMAIN f) \ {k} |-> f[x]]

Range(s) == {s[i] : i \in DOMAIN s}

Occ(x, s) == Cardinality({i \in DOMAIN s : s[i] = x})

(* current_time.strftime("%Y-%m-%d %H:%M:%S"): whole seconds (10 ticks) *)
strftime(t) == t \div 10

(* --------------------------- containment ------------------------------- *)
is_inside_zone_unpadded(x, y, top_left, bottom_right) ==
  /\ top_left[1] <= x /\ x <= bottom_right[1]
  /\ top_left[2] <= y /\ y <= bottom_right[2]

is_inside_zone_with_padding(x, y, top_left, bottom_right) ==
  LET padded_x1 == top_left[1] + zone_padding
      padded_y1 == top_left[2] + zone_padding
      padded_x2 == bottom_right[1] - zone_padding
      padded_y2 == bottom_right[2] - zone_padding
  IN IF padded_x1 >= padded_x2 \/ padded_y1 >= padded_y2
       THEN /\ top_left[1] <= x /\ x <= bottom_right[1]
            /\ top_left[2] <= y /\ y <= bottom_right[2]
       ELSE /\ padded_x1 <= x /\ x <= padded_x2
            /\ padded_y1 <= y /\ y <= padded_y2

get_bottom_center_point(bbox) == <<(bbox[1] + bbox[3]) \div 2, bbox[4]>>

(* method "bottom_center", the only one update_counts uses *)
is_person_in_zone(person_data, top_left, bottom_right) ==
  IF Len(person_data) = 5
    THEN LET b == get_bottom_center_point(SubSeq(person_data, 2, 5))
         IN is_inside_zone_with_padding(b[1], b[2], top_left, bottom_right)
    ELSE IF Len(person_data) = 3
      THEN is_inside_zone_with_padding(person_data[2], person_data[3] + 75,
                                       top_left, bottom_right)
      ELSE FALSE

(* ------------------------------ debounce ------------------------------- *)
is_stable_early(count) == count >= min_dwell_frames - 1

(* return buffer_data['count'] >= self.min_dwell_frames *)
is_stable(count) == count >= min_dwell_frames

update_person_state_buffer_no_reset(zone_buffer, person_id, is_inside, current_time) ==
  IF person_id \notin DOMAIN zone_buffer
    THEN [buffer |-> Put(zone_buffer, person_id,
                         [state |-> is_inside, count |-> 1,
                          last_update |-> current_time]),
          stable |-> FALSE]
    ELSE LET buffer_data == zone_buffer[person_id] IN
      [buffer |-> Put(zone_buffer, person_id,
                      [state |-> is_inside,
                       count |-> buffer_data.count + 1,
                       last_update |-> current_time]),
       stable |-> is_stable(buffer_data.count + 1)]

update_person_state_buffer(zone_buffer, person_id, is_inside, current_time) ==
  IF person_id \notin DOMAIN zone_buffer
    THEN [buffer |-> Put(zone_buffer, person_id,
                         [state |-> is_inside, count |-> 1,
                          last_update |-> current_time]),
          stable |-> FALSE]
    ELSE LET buffer_data == zone_buffer[person_id] IN
      IF buffer_data.state # is_inside
        THEN [buffer |-> Put(zone_buffer, person_id,
                             [state |-> is_inside, count |-> 1,
                              last_update |-> current_time]),
              stable |-> FALSE]
        ELSE [buffer |-> Put(zone_buffer, person_id,
                             [state |-> buffer_data.state,
                              count |-> buffer_data.count + 1,
                              last_update |-> current_time]),
              stable |-> is_stable(buffer_data.count + 1)]

(* ---------------------------- dwell tracker ---------------------------- *)
(* "Person just entered zone" *)
new_record(current_time) ==
  [entry_time |-> current_time, last_seen |-> current_time,
   counted_entry |-> FALSE, exit_time |-> NoTime, state |-> "inside"]

re_enter_as_new(person_tracker, current_time) ==
  [person_tracker EXCEPT !.state = "inside", !.exit_time = NoTime,
                         !.last_seen = current_time, !.counted_entry = FALSE]

(* "Person re-entered before grace period expired" *)
re_enter(person_tracker, current_time) ==
  [person_tracker EXCEPT !.state = "inside", !.exit_time = NoTime,
                         !.last_seen = current_time]

dwell_qualifies_late(person_tracker, current_time) ==
  /\ ~person_tracker.counted_entry
  /\ current_time - person_tracker.entry_time > min_dwell_time

(* "Check if person has dwelled long enough to be counted" *)
dwell_qualifies(person_tracker, current_time) ==
  /\ ~person_tracker.counted_entry
  /\ current_time - person_tracker.entry_time >= min_dwell_time

mark_counted_forgotten(person_tracker, current_time) ==
  [person_tracker EXCEPT !.last_seen = current_time]

mark_counted(person_tracker, current_time) ==
  [person_tracker EXCEPT !.last_seen = current_time, !.counted_entry = TRUE]

start_exit_timeless(person_tracker, current_time) ==
  [person_tracker EXCEPT !.state = "exiting"]

(* "Person just left zone" *)
start_exit(person_tracker, current_time) ==
  [person_tracker EXCEPT !.state = "exiting", !.exit_time = current_time]

grace_expired_late(person_tracker, current_time) ==
  current_time - person_tracker.exit_time > exit_grace_time

(* "Check if grace period has expired" *)
grace_expired(person_tracker, current_time) ==
  current_time - person_tracker.exit_time >= exit_grace_time

should_count_every_exit(person_tracker) == TRUE

(* should_count_exit = person_tracker['counted_entry'] *)
should_count_exit(person_tracker) == person_tracker.counted_entry

update_dwell_tracker(tracker, person_id, is_inside, current_time) ==
  IF person_id \notin DOMAIN tracker
    THEN IF is_inside
      THEN [tracker |-> Put(tracker, person_id, new_record(current_time)),
            action |-> "entered", should_count |-> FALSE]
      ELSE [tracker |-> tracker, action |-> "none", should_count |-> FALSE]
    ELSE LET person_tracker == tracker[person_id] IN
      IF is_inside
        THEN IF person_tracker.state = "exiting"
          THEN [tracker |-> Put(tracker, person_id,
                                re_enter(person_tracker, current_time)),
                action |-> "re_entered", should_count |-> FALSE]
          ELSE IF dwell_qualifies(person_tracker, current_time)
            THEN [tracker |-> Put(tracker, person_id,
                                  mark_counted(person_tracker, current_time)),
                  action |-> "qualified_entry", should_count |-> TRUE]
            ELSE [tracker |-> Put(tracker, person_id,
                                  [person_tracker EXCEPT
                                     !.last_seen = current_time]),
                  action |-> "dwelling", should_count |-> FALSE]
        ELSE IF person_tracker.state = "inside"
          THEN [tracker |-> Put(tracker, person_id,
                                start_exit(person_tracker, current_time)),
                action |-> "exiting",
                should_count |-> should_count_exit(person_tracker)]
          ELSE IF /\ person_tracker.state = "exiting"
                  /\ grace_expired(person_tracker, current_time)
            THEN [tracker |-> Del(tracker, person_id),
                  action |-> "confirmed_exit",
                  should_count |-> should_count_exit(person_tracker)]
            ELSE [tracker |-> tracker, action |-> "outside",
                  should_count |-> FALSE]

(* ------------------------------- reaper -------------------------------- *)
clean_zone_buffer_by_age(zone_buffer, active, current_time) ==
  [person_id \in {q \in DOMAIN zone_buffer :
                    current_time - zone_buffer[q].last_update <= StaleThreshold}
     |-> zone_buffer[person_id]]

(* the two sweeps of cleanup_stale_buffers over one zone's dicts *)
clean_zone_buffer(zone_buffer, active, current_time) ==
  LET stale_persons ==
        {person_id \in DOMAIN zone_buffer :
           \/ person_id \notin active
           \/ current_time - zone_buffer[person_id].last_update > StaleThreshold}
  IN [person_id \in (DOMAIN zone_buffer) \ stale_persons |-> zone_buffer[person_id]]

(* tracker_data.get('exit_time', ...) finds the key in every record, so   *)
(* last_activity is exit_time, which is None while the state is inside     *)
clean_zone_tracker(zone_tracker, current_time) ==
  LET stale_persons ==
        {person_id \in DOMAIN zone_tracker :
           LET last_activity == zone_tracker[person_id].exit_time
           IN /\ last_activity # NoTime
              /\ current_time - last_activity > DwellStaleThreshold}
  IN [person_id \in (DOMAIN zone_tracker) \ stale_persons |-> zone_tracker[person_id]]

cleanup_every_camera(buffers, trackers, camera_id, active, current_time) ==
  [buffers |->
     [c \in DOMAIN buffers |->
        [zone \in DOMAIN buffers[c] |->
           clean_zone_buffer(buffers[c][zone], active, current_time)]],
   trackers |->
     [c \in DOMAIN trackers |->
        [zone \in DOMAIN trackers[c] |->
           clean_zone_tracker(trackers[c][zone], current_time)]]]

cleanup_stale_buffers(buffers, trackers, camera_id, active, current_time) ==
  IF camera_id \notin DOMAIN buffers
    THEN [buffers |-> buffers, trackers |-> trackers]
    ELSE [buffers |->
            [buffers EXCEPT ![camera_id] =
               [zone \in DOMAIN buffers[camera_id] |->
                  clean_zone_buffer(buffers[camera_id][zone], active, current_time)]],
          trackers |->
            IF camera_id \in DOMAIN trackers
              THEN [trackers EXCEPT ![camera_id] =
                      [zone \in DOMAIN trackers[camera_id] |->
                         clean_zone_tracker(trackers[camera_id][zone], current_time)]]
              ELSE trackers]

(* --------------------------- update_counts ----------------------------- *)
(* one pass of the loop "for person_data in detected_people" for one zone; *)
(* st carries the zone's buffer, tracker and the loop's locals.  cn is the *)
(* history counter of entries counted for each record.                     *)
RECURSIVE process_people(_, _, _, _)
process_people(st, zone_data, people, current_time) ==
  IF people = <<>> THEN st
  ELSE
    LET person_data == Head(people) IN
    IF Len(person_data) = 0
      THEN process_people(st, zone_data, Tail(people), current_time)
      ELSE
        LET person_id == person_data[1]
            is_inside == is_person_in_zone(person_data, zone_data.top_left,
                                           zone_data.bottom_right)
            b == update_person_state_buffer(st.buffer, person_id, is_inside,
                                            current_time)
        IN IF ~b.stable
             THEN process_people([st EXCEPT !.buffer = b.buffer], zone_data,
                                 Tail(people), current_time)
             ELSE
               LET dwell_info == update_dwell_tracker(st.tracker, person_id,
                                                      is_inside, current_time)
                   entry == dwell_info.should_count
                            /\ dwell_info.action = "qualified_entry"
                   exit == dwell_info.should_count
                           /\ dwell_info.action = "confirmed_exit"
                   next ==
                     [buffer |-> b.buffer,
                      tracker |-> dwell_info.tracker,
                      current_inside_people |->
                        IF is_inside THEN st.current_inside_people \cup {person_id}
                                     ELSE st.current_inside_people,
                      entries_to_count |->
                        IF entry THEN Append(st.entries_to_count, person_id)
                                 ELSE st.entries_to_count,
                      exits_to_count |->
                        IF exit THEN Append(st.exits_to_count, person_id)
                                ELSE st.exits_to_count,
                      cn |->
                        IF dwell_info.action = "entered"
                          THEN Put(st.cn, person_id, 0)
                        ELSE IF dwell_info.action = "confirmed_exit"
                          THEN Del(st.cn, person_id)
                        ELSE IF entry
                          THEN Put(st.cn, person_id, st.cn[person_id] + 1)
                        ELSE st.cn]
               IN process_people(next, zone_data, Tail(people), current_time)

(* the loop over tracked persons that are not in the frame (track lost) *)
RECURSIVE process_lost(_, _, _)
process_lost(st, lost, current_time) ==
  IF lost = <<>> THEN st
  ELSE
    LET person_id == Head(lost)
        dwell_info == update_dwell_tracker(st.tracker, person_id, FALSE,
                                           current_time)
        exit == dwell_info.should_count /\ dwell_info.action = "confirmed_exit"
        next == [st EXCEPT
                   !.tracker = dwell_info.tracker,
                   !.exits_to_count =
                      IF exit THEN Append(@, person_id) ELSE @,
                   !.cn = IF dwell_info.action = "confirmed_exit"
                            THEN Del(@, person_id) ELSE @]
    IN process_lost(next, Tail(lost), current_time)

Get(f, k) == IF k \in DOMAIN f THEN f[k] ELSE EmptyDict

(* the body of "for zone, zone_data in ...items()" for one zone: the state *)
(* of the zone after the frame.  order fixes the iteration order of the    *)
(* tracker's keys.                                                         *)
process_zone(zone_data, zone_buffer, zone_tracker, zone_cn, detected_people, active, order, current_time) ==
  LET st0 == [buffer |-> zone_buffer, tracker |-> zone_tracker,
              current_inside_people |-> {},
              entries_to_count |-> <<>>, exits_to_count |-> <<>>,
              cn |-> [p \in DOMAIN zone_tracker |-> zone_cn[p]]]
      st1 == process_people(st0, zone_data, detected_people, current_time)
      lost == SelectSeq(order, LAMBDA p : p \in DOMAIN st1.tracker
                                          /\ p \notin active)
  IN process_lost(st1, lost, current_time)

history_events(ids, action, timestamp_str) ==
  [i \in 1..Len(ids) |-> [id |-> ids[i], action |-> action,
                          time |-> timestamp_str]]

count_zone(zone_data, st, current_time) ==
  [zone_data EXCEPT
     !.in_count = @ + Len(st.entries_to_count),
     !.out_count = @ + Len(st.exits_to_count),
     !.history = @ \o history_events(st.entries_to_count,
                                     "Entered (Qualified)", strftime(current_time))
                   \o history_events(st.exits_to_count,
                                     "Exited (Qualified)", strftime(current_time)),
     !.inside_ids = st.current_inside_people]

(* history: the run of raw observations of each person after the batch;   *)
(* n counts consecutive equal raw values (kept at the threshold once it is *)
(* reached), reached records that a run of inside values of threshold      *)
(* length has been seen                                                    *)
RECURSIVE raw_run_after(_, _, _)
raw_run_after(run, zone_data, people) ==
  IF people = <<>> THEN run
  ELSE
    LET person_data == Head(people) IN
    IF Len(person_data) = 0
      THEN raw_run_after(run, zone_data, Tail(people))
      ELSE
        LET p == person_data[1]
            v == is_person_in_zone(person_data, zone_data.top_left,
                                   zone_data.bottom_right)
            n == IF p \in DOMAIN run /\ run[p].state = v
                   THEN IF run[p].n < min_dwell_frames THEN run[p].n + 1
                                                       ELSE run[p].n
                   ELSE 1
            r == [state |-> v, n |-> n,
                  reached |-> \/ (p \in DOMAIN run /\ run[p].reached)
                              \/ (v /\ n >= min_dwell_frames)]
        IN raw_run_after(Put(run, p, r), zone_data, Tail(people))

Call(name, camera_id, zone, ok) ==
  [name |-> name, camera |-> camera_id, zone |-> zone, ok |-> ok,
   saved |-> FALSE, processed |-> {}]

(* the call went through self.save_data() *)
Saved(call) == [call EXCEPT !.saved = TRUE]

NoLocals ==
  /\ active_person_ids' = {}
  /\ entries_to_count' = EmptyDict
  /\ exits_to_count' = EmptyDict

(* the zone names in the order of DEFAULT_ZONE_CONFIG's keys *)
DefaultOrder == <<"zone1">>

(* d after record v was written in place into the zone dict that           *)
(* d[camera_id][zone] refers to: DEFAULT_ZONE_CONFIG.copy() is a shallow   *)
(* copy, so the cameras in sh hold one and the same dict for the zone      *)
write_zone(d, sh, camera_id, zone, v) ==
  [c \in DOMAIN d |->
     [z \in DOMAIN d[c] |->
        IF z = zone /\ (c = camera_id
                        \/ {<<camera_id, zone>>, <<c, z>>} \subseteq sh)
          THEN v ELSE d[c][z]]]

write_default(dz, sh, camera_id, zone, v) ==
  IF <<camera_id, zone>> \in sh THEN [dz EXCEPT ![zone] = v] ELSE dz

(* update_counts up to the zone loop: the camera is provisioned from the   *)
(* default configuration when it is new, the active ids are collected and  *)
(* the stale entries are reaped                                            *)
before_zones(camera_id, detected_people, current_time) ==
  LET provision == camera_id \notin DOMAIN data
      buffer1 == IF provision THEN Put(person_state_buffer, camera_id, EmptyDict)
                              ELSE person_state_buffer
      tracker1 == IF provision THEN Put(person_dwell_tracker, camera_id, EmptyDict)
                               ELSE person_dwell_tracker
      active == {person_data[1] :
                   person_data \in {x \in Range(detected_people) : Len(x) >= 1}}
      cl == cleanup_stale_buffers(buffer1, tracker1, camera_id, active,
                                  current_time)
  IN [data |-> IF provision THEN Put(data, camera_id, default_zone_config)
                            ELSE data,
      shared |-> IF provision
                   THEN shared \cup {<<camera_id, z>> : z \in DOMAIN default_zone_config}
                   ELSE shared,
      zone_order |-> IF provision THEN Put(zone_order, camera_id, DefaultOrder)
                                  ELSE zone_order,
      inside_zones |-> IF provision THEN Put(inside_zones, camera_id, EmptyDict)
                                    ELSE inside_zones,
      person_zone_history |->
        IF provision THEN Put(person_zone_history, camera_id, EmptyDict)
                     ELSE person_zone_history,
      person_state_buffer |-> cl.buffers,
      person_dwell_tracker |-> cl.trackers,
      active |-> active]

(* the zone loop's tracking work, zone by zone *)
zone_results(pre, camera_id, detected_people, order, current_time) ==
  [zone \in DOMAIN pre.data[camera_id] |->
     process_zone(pre.data[camera_id][zone],
                  Get(pre.person_state_buffer[camera_id], zone),
                  Get(pre.person_dwell_tracker[camera_id], zone),
                  Get(Get(counted_n, camera_id), zone),
                  detected_people, pre.active, order, current_time)]

(* the state the call leaves, from the state before the zone loop and the  *)
(* zones' results.  The final "if entries_to_count or exits_to_count" works *)
(* on the locals of the last zone of the loop, and fails with a NameError  *)
(* (caught, logged) when the camera has no zone.                           *)
after_zones(pre, res, camera_id, current_time) ==
  LET zones == DOMAIN pre.data[camera_id]
      names == pre.zone_order[camera_id]
      new == [zone \in zones |->
                count_zone(pre.data[camera_id][zone], res[zone], current_time)]
      Merge(old, upd) ==
        [zone \in (DOMAIN old) \cup zones |->
           IF zone \in zones THEN upd[zone] ELSE old[zone]]
  IN [data |->
        [c \in DOMAIN pre.data |->
           [z \in DOMAIN pre.data[c] |->
              IF z \in zones /\ (c = camera_id
                                 \/ {<<camera_id, z>>, <<c, z>>} \subseteq pre.shared)
                THEN new[z] ELSE pre.data[c][z]]],
      default_zone_config |->
        [z \in DOMAIN default_zone_config |->
           IF <<camera_id, z>> \in pre.shared THEN new[z]
                                              ELSE default_zone_config[z]],
      shared |-> pre.shared,
      zone_order |-> pre.zone_order,
      inside_zones |->
        [pre.inside_zones EXCEPT ![camera_id] =
           Merge(@, [zone \in zones |-> res[zone].current_inside_people])],
      person_zone_history |->
        [pre.person_zone_history EXCEPT ![camera_id] =
           Merge(@, [zone \in zones |-> Get(pre.person_zone_history[camera_id], zone)])],
      person_state_buffer |->
        IF camera_id \in DOMAIN pre.person_state_buffer
          THEN [pre.person_state_buffer EXCEPT ![camera_id] =
                  Merge(@, [zone \in zones |-> res[zone].buffer])]
          ELSE pre.person_state_buffer,
      person_dwell_tracker |->
        IF camera_id \in DOMAIN pre.person_dwell_tracker
          THEN [pre.person_dwell_tracker EXCEPT ![camera_id] =
                  Merge(@, [zone \in zones |-> res[zone].tracker])]
          ELSE pre.person_dwell_tracker,
      active |-> pre.active,
      entries_to_count |-> [zone \in zones |-> res[zone].entries_to_count],
      exits_to_count |-> [zone \in zones |-> res[zone].exits_to_count],
      cn |-> [zone \in zones |-> res[zone].cn],
      ok |-> names # <<>>,
      saved |-> /\ names # <<>>
                /\ \/ res[names[Len(names)]].entries_to_count # <<>>
                   \/ res[names[Len(names)]].exits_to_count # <<>>,
      processed |-> zones]

(* the camera has zones but no entry in person_state_buffer (the state     *)
(* start_pipeline leaves for a camera that __init__ did not know)          *)
tracking_missing(pre, camera_id) ==
  /\ camera_id \notin DOMAIN pre.person_state_buffer
  /\ pre.zone_order[camera_id] # <<>>

(* the call then: in the first zone of the loop lines 441-444 run, line    *)
(* 445 raises KeyError, the outer except logs it and the call returns      *)
key_error_in_loop(pre, camera_id) ==
  LET zone == pre.zone_order[camera_id][1]
      Init0(d, v) == [d EXCEPT ![camera_id] =
                        IF zone \in DOMAIN @ THEN @ ELSE Put(@, zone, v)]
  IN [data |-> pre.data,
      default_zone_config |-> default_zone_config,
      shared |-> pre.shared,
      zone_order |-> pre.zone_order,
      inside_zones |-> Init0(pre.inside_zones, {}),
      person_zone_history |-> Init0(pre.person_zone_history, EmptyDict),
      person_state_buffer |-> pre.person_state_buffer,
      person_dwell_tracker |-> pre.person_dwell_tracker,
      active |-> pre.active,
      entries_to_count |-> EmptyDict,
      exits_to_count |-> EmptyDict,
      cn |-> Get(counted_n, camera_id),
      ok |-> FALSE,
      saved |-> FALSE,
      processed |-> {}]

(* the outcome of update_counts(camera_id, detected_people) at current_time *)
update_counts_result(camera_id, detected_people, order, current_time) ==
  CHOOSE r \in
    UNION {IF tracking_missing(pre, camera_id)
             THEN {key_error_in_loop(pre, camera_id)}
             ELSE {after_zones(pre, res, camera_id, current_time) :
                     res \in {zone_results(pre, camera_id, detected_people,
                                           order, current_time)}} :
           pre \in {before_zones(camera_id, detected_people, current_time)}} :
    TRUE

update_counts(camera_id, detected_people, order, current_time) ==
  \E r \in {update_counts_result(camera_id, detected_people, order,
                                 current_time)} :
     /\ data' = r.data
     /\ default_zone_config' = r.default_zone_config
     /\ shared' = r.shared
     /\ zone_order' = r.zone_order
     /\ inside_zones' = r.inside_zones
     /\ person_zone_history' = r.person_zone_history
     /\ person_state_buffer' = r.person_state_buffer
     /\ person_dwell_tracker' = r.person_dwell_tracker
     /\ now' = current_time
     /\ op' = [Call("update_counts", camera_id, "", r.ok) EXCEPT
                 !.saved = r.saved, !.processed = r.processed]
     /\ active_person_ids' = r.active
     /\ entries_to_count' = r.entries_to_count
     /\ exits_to_count' = r.exits_to_count
     /\ counted_n' = Put(counted_n, camera_id, r.cn)
     /\ raw_run' =
          IF r.processed = DOMAIN r.data[camera_id]
            THEN Put(raw_run, camera_id,
                     [zone \in DOMAIN r.data[camera_id] |->
                        raw_run_after(Get(Get(raw_run, camera_id), zone),
                                      r.data[camera_id][zone], detected_people)])
            ELSE raw_run
     /\ UNCHANGED <<active_camera, config>>

(* ------------------------------ zone CRUD ------------------------------ *)
Failed(name, camera_id, zone) ==
  /\ op' = Call(name, camera_id, zone, FALSE)
  /\ NoLocals
  /\ UNCHANGED <<registry, active_camera, config, now, raw_run, counted_n>>

SetEveryZone(d, camera_id, zone, v) ==
  IF camera_id \in DOMAIN d /\ zone \in DOMAIN d[camera_id]
    THEN [d EXCEPT ![camera_id] = [y \in DOMAIN @ |-> v]] ELSE d

(* d[camera_id][zone] = v when the camera and the zone are keys of d *)
SetIfPresent(d, camera_id, zone, v) ==
  IF camera_id \in DOMAIN d /\ zone \in DOMAIN d[camera_id]
    THEN [d EXCEPT ![camera_id][zone] = v] ELSE d

DelIfPresent(d, camera_id, zone) ==
  IF camera_id \in DOMAIN d /\ zone \in DOMAIN d[camera_id]
    THEN [d EXCEPT ![camera_id] = Del(@, zone)] ELSE d

zone_missing_camera_only(camera_id, zone) == camera_id \notin DOMAIN data

(* if camera_id not in self.data or zone not in self.data[camera_id]["zones"] *)
zone_missing(camera_id, zone) ==
  camera_id \notin DOMAIN data \/ zone \notin DOMAIN data[camera_id]

reset_zone_data_counts_only(zone_data) ==
  [zone_data EXCEPT !.in_count = 0, !.out_count = 0]

(* "Comprehensive reset of zone data" *)
reset_zone_data(zone_data) ==
  [zone_data EXCEPT !.in_count = 0, !.out_count = 0, !.inside_ids = {}]

reset_zone_counts(camera_id, zone) ==
  IF zone_missing(camera_id, zone)
    THEN Failed("reset_zone_counts", camera_id, zone)
    ELSE
      /\ data' = write_zone(data, shared, camera_id, zone,
                            reset_zone_data(data[camera_id][zone]))
      /\ default_zone_config' =
           write_default(default_zone_config, shared, camera_id, zone,
                         reset_zone_data(data[camera_id][zone]))
      /\ inside_zones' = SetIfPresent(inside_zones, camera_id, zone, {})
      /\ person_zone_history' =
           SetIfPresent(person_zone_history, camera_id, zone, EmptyDict)
      /\ person_state_buffer' =
           SetIfPresent(person_state_buffer, camera_id, zone, EmptyDict)
      /\ person_dwell_tracker' =
           SetIfPresent(person_dwell_tracker, camera_id, zone, EmptyDict)
      /\ raw_run' = SetIfPresent(raw_run, camera_id, zone, EmptyDict)
      /\ counted_n' = SetIfPresent(counted_n, camera_id, zone, EmptyDict)
      /\ op' = Saved(Call("reset_zone_counts", camera_id, zone, TRUE))
      /\ NoLocals
      /\ UNCHANGED <<shared, zone_order, active_camera, config, now>>

delete_zone(camera_id, zone) ==
  IF zone_missing(camera_id, zone)
    THEN Failed("delete_zone", camera_id, zone)
    ELSE
      /\ data' = [data EXCEPT ![camera_id] = Del(@, zone)]
      /\ shared' = shared \ {<<camera_id, zone>>}
      /\ zone_order' = [zone_order EXCEPT ![camera_id] =
                          SelectSeq(@, LAMBDA z : z # zone)]
      /\ inside_zones' = DelIfPresent(inside_zones, camera_id, zone)
      /\ person_zone_history' = DelIfPresent(person_zone_history, camera_id, zone)
      /\ person_state_buffer' = DelIfPresent(person_state_buffer, camera_id, zone)
      /\ person_dwell_tracker' = DelIfPresent(person_dwell_tracker, camera_id, zone)
      /\ raw_run' = DelIfPresent(raw_run, camera_id, zone)
      /\ counted_n' = DelIfPresent(counted_n, camera_id, zone)
      /\ op' = Saved(Call("delete_zone", camera_id, zone, TRUE))
      /\ NoLocals
      /\ UNCHANGED <<default_zone_config, active_camera, config, now>>

set_active_camera(camera_id) ==
  IF camera_id \in DOMAIN data
    THEN /\ active_camera' = camera_id
         /\ op' = Call("set_active_camera", camera_id, "", TRUE)
         /\ NoLocals
         /\ UNCHANGED <<registry, config, now, raw_run, counted_n>>
    ELSE Failed("set_active_camera", camera_id, "")

(* PipelineManager.start_pipeline: the registry is replaced by one empty   *)
(* entry per video source, with fresh inside_zones and person_zone_history; *)
(* person_state_buffer and person_dwell_tracker are not touched            *)
start_pipeline(camera_ids) ==
  /\ data' = [c \in Range(camera_ids) |-> EmptyDict]
  /\ inside_zones' = [c \in Range(camera_ids) |-> EmptyDict]
  /\ person_zone_history' = [c \in Range(camera_ids) |-> EmptyDict]
  /\ zone_order' = [c \in Range(camera_ids) |-> <<>>]
  /\ shared' = {}
  /\ active_camera' = IF camera_ids # <<>> THEN camera_ids[1] ELSE "camera1"
  /\ op' = Saved(Call("start_pipeline", "", "", TRUE))
  /\ NoLocals
  /\ UNCHANGED <<person_state_buffer, person_dwell_tracker,
                 default_zone_config, config, now, raw_run, counted_n>>

(* d[camera_id][zone] = v, with d[camera_id] = {} first when the camera is new *)
SetZone(d, camera_id, zone, v) ==
  Put(d, camera_id, Put(Get(d, camera_id), zone, v))

invalid_coordinates_strict(top_left, bottom_right) ==
  top_left[1] > bottom_right[1] \/ top_left[2] > bottom_right[2]

(* "Validate coordinate logic" *)
invalid_coordinates(top_left, bottom_right) ==
  top_left[1] >= bottom_right[1] \/ top_left[2] >= bottom_right[2]

new_zone_padded(top_left, bottom_right) ==
  [top_left |-> <<top_left[1] + zone_padding, top_left[2] + zone_padding>>,
   bottom_right |-> bottom_right,
   in_count |-> 0, out_count |-> 0, inside_ids |-> {}, history |-> <<>>]

(* the zone dict that "Create or update zone" stores *)
new_zone(top_left, bottom_right) ==
  [top_left |-> top_left, bottom_right |-> bottom_right,
   in_count |-> 0, out_count |-> 0, inside_ids |-> {}, history |-> <<>>]

create_or_update_zone(camera_id, zone, top_left, bottom_right) ==
  IF invalid_coordinates(top_left, bottom_right)
    THEN Failed("create_or_update_zone", camera_id, zone)
  ELSE IF camera_id \in DOMAIN data /\ camera_id \notin DOMAIN person_state_buffer
    THEN
      \* self.person_state_buffer[camera_id][zone] = {} raises KeyError
      \* after the zone and two of its tracking entries have been written
      /\ data' = SetZone(data, camera_id, zone, new_zone(top_left, bottom_right))
      /\ shared' = shared \ {<<camera_id, zone>>}
      /\ zone_order' =
           Put(zone_order, camera_id,
               IF zone \in DOMAIN data[camera_id]
                 THEN zone_order[camera_id]
                 ELSE Append(zone_order[camera_id], zone))
      /\ inside_zones' = SetZone(inside_zones, camera_id, zone, {})
      /\ person_zone_history' =
           SetZone(person_zone_history, camera_id, zone, EmptyDict)
      /\ op' = Call("create_or_update_zone", camera_id, zone, FALSE)
      /\ NoLocals
      /\ UNCHANGED <<person_state_buffer, person_dwell_tracker, raw_run,
                     counted_n, default_zone_config, active_camera, config, now>>
    ELSE
      /\ data' = SetZone(data, camera_id, zone, new_zone(top_left, bottom_right))
      /\ shared' = shared \ {<<camera_id, zone>>}
      /\ zone_order' =
           Put(zone_order, camera_id,
               IF zone \in DOMAIN Get(data, camera_id)
                 THEN zone_order[camera_id]
                 ELSE Append(Get(zone_order, camera_id), zone))
      /\ inside_zones' = SetZone(inside_zones, camera_id, zone, {})
      /\ person_zone_history' =
           SetZone(person_zone_history, camera_id, zone, EmptyDict)
      /\ person_state_buffer' =
           SetZone(person_state_buffer, camera_id, zone, EmptyDict)
      /\ person_dwell_tracker' =
           SetZone(person_dwell_tracker, camera_id, zone, EmptyDict)
      /\ raw_run' = SetZone(raw_run, camera_id, zone, EmptyDict)
      /\ counted_n' = SetZone(counted_n, camera_id, zone, EmptyDict)
      /\ op' = Saved(Call("create_or_update_zone", camera_id, zone, TRUE))
      /\ NoLocals
      /\ UNCHANGED <<default_zone_config, active_camera, config, now>>

(* ---------------------------- configuration --------------------------- *)
(* if min_dwell_seconds < 0: return False *)
set_dwell_time_threshold(min_dwell_seconds) ==
  IF min_dwell_seconds < 0
    THEN Failed("set_dwell_time_threshold", "", "")
    ELSE /\ min_dwell_time' = min_dwell_seconds
         /\ op' = Call("set_dwell_time_threshold", "", "", TRUE)
         /\ NoLocals
         /\ UNCHANGED <<registry, active_camera, min_dwell_frames,
                        exit_grace_time, now, raw_run, counted_n>>

(* ------------------------------ snapshot reads ------------------------- *)
RECURSIVE total_dwell_time(_, _, _)
total_dwell_time(zone_tracker, persons, current_time) ==
  IF persons = {} THEN 0
  ELSE LET person_id == CHOOSE p \in persons : TRUE
       IN (current_time - zone_tracker[person_id].entry_time)
            + total_dwell_time(zone_tracker, persons \ {person_id}, current_time)

(* times are in ticks; the average is rounded down to a whole tick *)
get_dwell_statistics(camera_id, zone, current_time) ==
  IF camera_id \notin DOMAIN person_dwell_tracker
       \/ zone \notin DOMAIN person_dwell_tracker[camera_id]
    THEN [active_dwellers |-> 0, average_dwell_time |-> 0,
          max_dwell_time |-> 0, qualified_count |-> 0]
    ELSE
      LET zone_tracker == person_dwell_tracker[camera_id][zone]
          dwellers == {p \in DOMAIN zone_tracker : zone_tracker[p].state = "inside"}
          total == total_dwell_time(zone_tracker, dwellers, current_time)
          dwell_times == {current_time - zone_tracker[p].entry_time : p \in dwellers}
      IN [active_dwellers |-> Cardinality(dwellers),
          average_dwell_time |->
            IF dwellers # {} THEN total \div Cardinality(dwellers) ELSE 0,
          max_dwell_time |->
            IF \E t \in dwell_times : t > 0
              THEN CHOOSE t \in dwell_times : \A u \in dwell_times : u <= t
              ELSE 0,
          qualified_count |->
            Cardinality({p \in dwellers : zone_tracker[p].counted_entry})]

(* a snapshot read of a zone that does not exist returns None *)
None == [none |-> TRUE]

get_zone_statistics(camera_id, zone, current_time) ==
  IF zone_missing(camera_id, zone) THEN None
  ELSE
    LET zone_data == data[camera_id][zone]
    IN [in_count |-> zone_data.in_count,
        out_count |-> zone_data.out_count,
        current_occupancy |->
          Cardinality(Get(Get(inside_zones, camera_id), zone)),
        net_count |-> zone_data.in_count - zone_data.out_count,
        inside_ids |-> zone_data.inside_ids,
        total_events |-> Len(zone_data.history),
        zone_coordinates |-> [top_left |-> zone_data.top_left,
                              bottom_right |-> zone_data.bottom_right],
        dwell_statistics |-> get_dwell_statistics(camera_id, zone, current_time)]

(* one entry of get_current_dwell_info's list; times are in ticks *)
dwell_info_of(person_id, tracker_data, current_time) ==
  LET dwell_time == current_time - tracker_data.entry_time
      info == [person_id |-> person_id,
               state |-> tracker_data.state,
               dwell_time |-> dwell_time,
               entry_time |-> strftime(tracker_data.entry_time),
               counted |-> tracker_data.counted_entry,
               qualified |-> dwell_time >= min_dwell_time,
               time_to_qualify |->
                 IF min_dwell_time - dwell_time > 0
                   THEN min_dwell_time - dwell_time ELSE 0]
  IN IF tracker_data.state = "exiting" /\ tracker_data.exit_time # NoTime
       THEN [k \in (DOMAIN info) \cup {"exit_time", "exit_duration",
                                        "time_to_confirm_exit"} |->
               IF k = "exit_time" THEN strftime(tracker_data.exit_time)
               ELSE IF k = "exit_duration"
                 THEN current_time - tracker_data.exit_time
               ELSE IF k = "time_to_confirm_exit"
                 THEN IF exit_grace_time - (current_time - tracker_data.exit_time) > 0
                        THEN exit_grace_time - (current_time - tracker_data.exit_time)
                        ELSE 0
               ELSE info[k]]
       ELSE info

sort_position_ascending(sorted, info) ==
  Cardinality({i \in DOMAIN sorted : sorted[i].dwell_time <= info.dwell_time})

(* list.sort(key=dwell_time, reverse=True) is stable: an entry goes behind *)
(* the entries before it in the list whose dwell_time is not smaller       *)
sort_position(sorted, info) ==
  Cardinality({i \in DOMAIN sorted : sorted[i].dwell_time >= info.dwell_time})

RECURSIVE sort_by_dwell_time(_)
sort_by_dwell_time(dwell_info) ==
  IF dwell_info = <<>> THEN <<>>
  ELSE LET n == Len(dwell_info)
           sorted == sort_by_dwell_time(SubSeq(dwell_info, 1, n - 1))
           k == sort_position(sorted, dwell_info[n])
       IN SubSeq(sorted, 1, k) \o <<dwell_info[n]>>
            \o SubSeq(sorted, k + 1, Len(sorted))

(* order is the iteration order of the zone's tracker dict *)
get_current_dwell_info(camera_id, zone, order, current_time) ==
  IF camera_id \notin DOMAIN person_dwell_tracker
       \/ zone \notin DOMAIN person_dwell_tracker[camera_id]
    THEN <<>>
    ELSE
      LET zone_tracker == person_dwell_tracker[camera_id][zone]
          keys == SelectSeq(order, LAMBDA p : p \in DOMAIN zone_tracker)
          listed == SelectSeq(keys, LAMBDA p :
                                zone_tracker[p].state \in {"inside", "exiting"})
      IN sort_by_dwell_time(
           [i \in 1..Len(listed) |->
              dwell_info_of(listed[i], zone_tracker[listed[i]], current_time)])

(* ----------------------------- specification --------------------------- *)
Observations == {<<p, pt[1], pt[2]>> : p \in Persons, pt \in Points}

(* detected_people is a set of tuples, iterated in some order *)
Batches ==
  UNION {{s \in [1..n -> Observations] :
            \A i, j \in 1..n : i # j => s[i] # s[j]} : n \in 0..MaxBatch}

Orders == {s \in [1..Cardinality(Persons) -> Persons] : Range(s) = Persons}

CountsWithin(bound) ==
  \A c \in DOMAIN person_state_buffer :
    \A z \in DOMAIN person_state_buffer[c] :
      \A p \in DOMAIN person_state_buffer[c][z] :
        person_state_buffer[c][z][p].count <= bound

(* the pipeline thread is outside update_counts; the other fields are the  *)
(* call's arguments and locals while it is inside.  web, interrupted and   *)
(* base are history: whether the web thread has made a call during the     *)
(* frame, whether that call reset the zone whose counts are pending, and   *)
(* the number of history events of each zone at its last reset             *)
Idle == [pc |-> "idle", camera |-> "", people |-> <<>>, order |-> <<>>,
         time |-> NoTime, active |-> {}, left |-> <<>>, size |-> 0,
         zone |-> "", entries |-> <<>>, exits |-> <<>>, inside |-> {},
         web |-> FALSE, interrupted |-> FALSE, base |-> EmptyDict,
         done |-> {}]

NoRun == [kind |-> "none", runs |-> 0, n |-> 0, since |-> NoTime,
          third |-> NoTime, prev_kind |-> "none", prev_since |-> NoTime,
          stay |-> NoTime,
          had |-> "none", base_in |-> 0, base_out |-> 0, base_hist |-> 0]

(* the state after __init__ for the default registry contents; shared     *)
(* tells whether load_data built them from DEFAULT_ZONE_CONFIG             *)
Constructed ==
  /\ data = [c \in Cameras |-> DEFAULT_ZONE_CONFIG]
  /\ inside_zones = [c \in Cameras |-> [z \in DOMAIN DEFAULT_ZONE_CONFIG |-> {}]]
  /\ person_zone_history =
       [c \in Cameras |-> [z \in DOMAIN DEFAULT_ZONE_CONFIG |-> EmptyDict]]
  /\ person_state_buffer =
       [c \in Cameras |-> [z \in DOMAIN DEFAULT_ZONE_CONFIG |-> EmptyDict]]
  /\ person_dwell_tracker =
       [c \in Cameras |-> [z \in DOMAIN DEFAULT_ZONE_CONFIG |-> EmptyDict]]
  /\ active_camera = "camera1"
  /\ min_dwell_frames = 3
  /\ now = 0
  /\ op = Call("__init__", "", "", TRUE)
  /\ active_person_ids = {}
  /\ entries_to_count = EmptyDict
  /\ exits_to_count = EmptyDict
  /\ raw_run = [c \in Cameras |-> [z \in DOMAIN DEFAULT_ZONE_CONFIG |-> EmptyDict]]
  /\ counted_n = [c \in Cameras |-> [z \in DOMAIN DEFAULT_ZONE_CONFIG |-> EmptyDict]]
  /\ sc = NoRun
  /\ default_zone_config = DEFAULT_ZONE_CONFIG
  /\ zone_order = [c \in Cameras |-> DefaultOrder]
  /\ frame = Idle

(* json.load of a history file that holds the default registry: the zone   *)
(* dicts are the file's own objects                                        *)
FromHistoryFile == shared = {}

(* no history file: DEFAULT_ZONE_CONFIG.copy() *)
FromDefaultConfig ==
  shared = {<<c, z>> : c \in Cameras, z \in DOMAIN DEFAULT_ZONE_CONFIG}

Init ==
  /\ Constructed
  /\ FromHistoryFile
  /\ min_dwell_time = 100
  /\ exit_grace_time = 100

UpdateCounts ==
  \E camera_id \in Cameras, detected_people \in Batches, order \in Orders,
     d \in Deltas :
    /\ now <= MaxTime
    /\ update_counts(camera_id, detected_people, order, now + d)
    /\ CountsWithin(MaxCount)'
    /\ UNCHANGED <<sc, frame>>

ResetZoneCounts ==
  \E camera_id \in Cameras, zone \in ZoneNames :
    reset_zone_counts(camera_id, zone) /\ UNCHANGED <<sc, frame>>

DeleteZone ==
  \E camera_id \in Cameras, zone \in ZoneNames :
    delete_zone(camera_id, zone) /\ UNCHANGED <<sc, frame>>

SetActiveCamera ==
  \E camera_id \in Cameras : set_active_camera(camera_id) /\ UNCHANGED <<sc, frame>>

CreateOrUpdateZone ==
  \E camera_id \in Cameras, zone \in ZoneNames, rect \in Rects :
    create_or_update_zone(camera_id, zone, rect[1], rect[2]) /\ UNCHANGED <<sc, frame>>

Next ==
  \/ UpdateCounts
  \/ ResetZoneCounts
  \/ DeleteZone
  \/ SetActiveCamera
  \/ CreateOrUpdateZone

Spec == Init /\ [][Next]_vars

(* --------------------- scenario specification -------------------------- *)
(* One person (id 7), one observation per frame, frames 0.1 s to 0.5 s     *)
(* apart, with the scenarios' configuration: stability threshold 3,        *)
(* min_dwell_time 1.0 s, exit_grace_time 1.0 s.                            *)
ScenarioCamera == "camera1"
ScenarioZone == "zone1"
ScenarioPerson == CHOOSE p \in Persons : TRUE

ScenarioInit ==
  /\ Constructed
  /\ FromHistoryFile
  /\ min_dwell_time = 10
  /\ exit_grace_time = 10

(* the dwell record of the person before the frame *)
RecordStatus ==
  LET tracker == person_dwell_tracker[ScenarioCamera][ScenarioZone]
  IN IF ScenarioPerson \notin DOMAIN tracker THEN "none"
     ELSE IF tracker[ScenarioPerson].counted_entry
       THEN IF tracker[ScenarioPerson].state = "inside"
              THEN "inside_counted" ELSE "exiting_counted"
       ELSE IF tracker[ScenarioPerson].state = "inside"
              THEN "inside_uncounted" ELSE "exiting_uncounted"

(* history: the run of frames of one kind ("in": observed inside the zone, *)
(* "out": observed outside, "lost": not in the frame) that the frame at    *)
(* current_time extends or starts; third is the time of the run's          *)
(* threshold-th frame, had and base_* describe the state before the run,   *)
(* prev_kind and prev_since the run before it                              *)
(* (stay is set by stay_after)                                             *)
sc_after(kind, current_time) ==
  IF kind = sc.kind
    THEN [sc EXCEPT !.n = @ + 1,
                    !.third = IF sc.n + 1 = min_dwell_frames
                                THEN current_time ELSE @]
    ELSE [kind |-> kind, runs |-> sc.runs + 1, n |-> 1, since |-> current_time,
          prev_kind |-> sc.kind, prev_since |-> sc.since, stay |-> sc.stay,
          third |-> IF min_dwell_frames = 1 THEN current_time ELSE NoTime,
          had |-> RecordStatus,
          base_in |-> data[ScenarioCamera][ScenarioZone].in_count,
          base_out |-> data[ScenarioCamera][ScenarioZone].out_count,
          base_hist |-> Len(data[ScenarioCamera][ScenarioZone].history)]

(* history: the time at which the person's record last became inside, by  *)
(* creation or by re-entry; before and after are RecordStatus around the   *)
(* frame                                                                   *)
stay_after(before, after, current_time) ==
  IF after = "none" THEN NoTime
  ELSE IF after \in {"inside_counted", "inside_uncounted"}
          /\ before \in {"none", "exiting_counted", "exiting_uncounted"}
    THEN current_time
    ELSE sc.stay

ScenarioFrame ==
  \E kind \in {"in", "out", "lost"}, d \in ScenarioDeltas :
    LET detected_people ==
          IF kind = "in" THEN << <<ScenarioPerson, 960, 500>> >>
          ELSE IF kind = "out" THEN << <<ScenarioPerson, 100, 100>> >>
          ELSE << >>
    IN /\ now + d <= ScenarioMaxTime
       /\ kind = sc.kind \/ sc.runs < MaxRuns
       /\ update_counts(ScenarioCamera, detected_people, <<ScenarioPerson>>,
                        now + d)
       /\ CountsWithin(ScenarioMaxCount)'
       /\ sc' = [sc_after(kind, now + d) EXCEPT
                   !.stay = stay_after(RecordStatus, RecordStatus', now + d)]
       /\ UNCHANGED frame

ScenarioNext == ScenarioFrame

ScenarioSpec == ScenarioInit /\ [][ScenarioNext]_vars

(* ----------------------- multi-camera specification -------------------- *)
(* Two cameras, started without a history file: camera1 holds the default  *)
(* zone, camera2 is provisioned by its first frame or by                   *)
(* create_or_update_zone.  Frames are 0.1 s apart and carry tuples that may *)
(* be malformed; min_dwell_time and exit_grace_time are 0.1 s.             *)
AllCameras == {"camera1", "camera2"}

Malformed == {<<p, 960>> : p \in Persons}

CameraBatches ==
  {<<>>} \cup {<<x>> : x \in {<<p, 960, 500>> : p \in Persons} \cup Malformed}
    \cup {<<(<<p, 960, 500>>), m>> : p \in Persons, m \in Malformed}

CameraDeltas == {1}

CameraInit ==
  /\ Constructed
  /\ FromDefaultConfig
  /\ min_dwell_time = 1
  /\ exit_grace_time = 1

CameraUpdateCounts ==
  \E camera_id \in AllCameras, detected_people \in CameraBatches,
     order \in Orders, d \in CameraDeltas :
    /\ now + d <= CameraMaxTime
    /\ update_counts(camera_id, detected_people, order, now + d)
    /\ UNCHANGED <<sc, frame>>

CameraResetZoneCounts ==
  \E camera_id \in AllCameras, zone \in ZoneNames :
    reset_zone_counts(camera_id, zone) /\ UNCHANGED <<sc, frame>>

CameraDeleteZone ==
  \E camera_id \in AllCameras, zone \in ZoneNames :
    delete_zone(camera_id, zone) /\ UNCHANGED <<sc, frame>>

CameraSetActiveCamera ==
  \E camera_id \in AllCameras :
    set_active_camera(camera_id) /\ UNCHANGED <<sc, frame>>

CameraCreateOrUpdateZone ==
  \E camera_id \in AllCameras, zone \in ZoneNames, rect \in Rects :
    create_or_update_zone(camera_id, zone, rect[1], rect[2])
      /\ UNCHANGED <<sc, frame>>

CameraNext ==
  \/ CameraUpdateCounts
  \/ CameraResetZoneCounts
  \/ CameraDeleteZone
  \/ CameraSetActiveCamera
  \/ CameraCreateOrUpdateZone

CameraSpec == CameraInit /\ [][CameraNext]_vars

(* ------------------------ multi-zone specification --------------------- *)
(* One camera with up to two zones, which the dict keeps in the order of   *)
(* their creation; the person is seen at one point per frame, frames are   *)
(* 0.1 s apart, min_dwell_time and exit_grace_time are 0.1 s.              *)
AllZones == {"zone1", "zone2"}

ZonesBatches ==
  {<<>>} \cup {<<(<<p, pt[1], pt[2]>>)>> :
                 p \in Persons, pt \in {<<960, 500>>, <<100, 100>>}}

ZonesInit ==
  /\ Constructed
  /\ FromDefaultConfig
  /\ min_dwell_time = 1
  /\ exit_grace_time = 1

ZonesUpdateCounts ==
  \E camera_id \in Cameras, detected_people \in ZonesBatches,
     order \in Orders, d \in CameraDeltas :
    /\ now + d <= ZonesMaxTime
    /\ update_counts(camera_id, detected_people, order, now + d)
    /\ UNCHANGED <<sc, frame>>

ZonesResetZoneCounts ==
  \E camera_id \in Cameras, zone \in AllZones :
    reset_zone_counts(camera_id, zone) /\ UNCHANGED <<sc, frame>>

ZonesDeleteZone ==
  \E camera_id \in Cameras, zone \in AllZones :
    delete_zone(camera_id, zone) /\ UNCHANGED <<sc, frame>>

ZonesCreateOrUpdateZone ==
  \E camera_id \in Cameras, zone \in AllZones, rect \in Rects :
    create_or_update_zone(camera_id, zone, rect[1], rect[2])
      /\ UNCHANGED <<sc, frame>>

ZonesNext ==
  \/ ZonesUpdateCounts
  \/ ZonesResetZoneCounts
  \/ ZonesDeleteZone
  \/ ZonesCreateOrUpdateZone

ZonesSpec == ZonesInit /\ [][ZonesNext]_vars

(* ------------------------ concurrent specification --------------------- *)
(* update_counts runs on the pipeline thread while the web / Socket.IO     *)
(* thread calls the zone operations on the same object; there is no lock.  *)
(* The frame is cut where the other thread can run: after the reaping, and *)
(* for each zone after the tracking loops and after "in_count +=".  The    *)
(* web thread completes at most one call while a frame is in progress.     *)
CountAction(history, action) ==
  Cardinality({i \in DOMAIN history : history[i].action = action})

FrameVars == <<active_person_ids, entries_to_count, exits_to_count, raw_run,
               sc, active_camera, config>>

(* lines 419-437: provisioning, active ids, reaping, current_time, and the *)
(* iterator over the camera's zones                                        *)
FrameBegin ==
  \E camera_id \in Cameras, detected_people \in ZonesBatches,
     order \in Orders, d \in CameraDeltas :
    /\ frame.pc = "idle"
    /\ now + d <= ConcurrentMaxTime
    /\ \E pre \in {before_zones(camera_id, detected_people, now + d)} :
         /\ data' = pre.data
         /\ shared' = pre.shared
         /\ zone_order' = pre.zone_order
         /\ inside_zones' = pre.inside_zones
         /\ person_zone_history' = pre.person_zone_history
         /\ person_state_buffer' = pre.person_state_buffer
         /\ person_dwell_tracker' = pre.person_dwell_tracker
         /\ frame' = [Idle EXCEPT !.pc = "loop", !.camera = camera_id,
                                  !.people = detected_people, !.order = order,
                                  !.time = now + d, !.active = pre.active,
                                  !.left = pre.zone_order[camera_id],
                                  !.size = Len(pre.zone_order[camera_id]),
                                  !.base = frame.base]
    /\ now' = now + d
    /\ UNCHANGED <<default_zone_config, op, counted_n, FrameVars>>

(* the call returns: op records whether it ran to its end and saved *)
Return(ok, saved) ==
  /\ op' = [Call("update_counts", frame.camera, "", ok) EXCEPT
               !.saved = saved, !.processed = frame.done]
  /\ frame' = [Idle EXCEPT !.base = frame.base]

(* next(iterator) and the tracking loops of one zone (lines 439-494).  The *)
(* iterator raises RuntimeError when the dict has changed size; at the end *)
(* of the loop the call saves if the last zone's lists are not empty, and  *)
(* fails with a NameError if there was no zone.                            *)
FrameZone ==
  /\ frame.pc = "loop"
  /\ IF Len(zone_order[frame.camera]) # frame.size
       THEN /\ Return(FALSE, FALSE)
            /\ UNCHANGED <<registry, counted_n>>
     ELSE IF frame.left = <<>>
       THEN /\ Return(frame.zone # "",
                      frame.entries # <<>> \/ frame.exits # <<>>)
            /\ UNCHANGED <<registry, counted_n>>
     ELSE
       LET camera_id == frame.camera
           zone == Head(frame.left)
       IN \E st \in {process_zone(data[camera_id][zone],
                                   Get(person_state_buffer[camera_id], zone),
                                   Get(person_dwell_tracker[camera_id], zone),
                                   Get(Get(counted_n, camera_id), zone),
                                   frame.people, frame.active, frame.order,
                                   frame.time)} :
            /\ person_state_buffer' =
                 SetZone(person_state_buffer, camera_id, zone, st.buffer)
            /\ person_dwell_tracker' =
                 SetZone(person_dwell_tracker, camera_id, zone, st.tracker)
            /\ inside_zones' =
                 SetZone(inside_zones, camera_id, zone,
                         IF zone \in DOMAIN inside_zones[camera_id]
                           THEN inside_zones[camera_id][zone] ELSE {})
            /\ person_zone_history' =
                 SetZone(person_zone_history, camera_id, zone,
                         Get(person_zone_history[camera_id], zone))
            /\ counted_n' = SetZone(counted_n, camera_id, zone, st.cn)
            /\ frame' = [frame EXCEPT !.pc = "in_count", !.zone = zone,
                                      !.left = Tail(frame.left),
                                      !.entries = st.entries_to_count,
                                      !.exits = st.exits_to_count,
                                      !.inside = st.current_inside_people,
                                      !.interrupted = FALSE]
            /\ UNCHANGED <<data, default_zone_config, shared, zone_order, op>>
  /\ UNCHANGED <<now, FrameVars>>

(* self.data[camera_id]["zones"][zone]["in_count"] += len(entries_to_count) *)
(* (lines 499-500); a KeyError ends the call when the zone is gone         *)
FrameCountIn ==
  /\ frame.pc = "in_count"
  /\ IF frame.entries = <<>>
       THEN /\ frame' = [frame EXCEPT !.pc = "rest"]
            /\ UNCHANGED <<registry, op>>
     ELSE IF ~zone_missing(frame.camera, frame.zone)
       THEN LET v == [data[frame.camera][frame.zone] EXCEPT
                        !.in_count = @ + Len(frame.entries)]
            IN /\ data' = write_zone(data, shared, frame.camera, frame.zone, v)
               /\ default_zone_config' =
                    write_default(default_zone_config, shared, frame.camera,
                                  frame.zone, v)
               /\ frame' = [frame EXCEPT !.pc = "rest"]
               /\ UNCHANGED <<inside_zones, person_zone_history,
                              person_state_buffer, person_dwell_tracker,
                              shared, zone_order, op>>
       ELSE /\ Return(FALSE, FALSE)
            /\ UNCHANGED registry
  /\ UNCHANGED <<now, counted_n, FrameVars>>

(* the rest of the zone's body (lines 501-521): the Entered events, the    *)
(* exits and their events, the occupancy                                   *)
FrameRest ==
  /\ frame.pc = "rest"
  /\ IF ~zone_missing(frame.camera, frame.zone)
       THEN LET timestamp_str == strftime(frame.time)
                v == [data[frame.camera][frame.zone] EXCEPT
                        !.out_count = @ + Len(frame.exits),
                        !.history = @ \o history_events(frame.entries, "Entered (Qualified)",
                                                        timestamp_str)
                                      \o history_events(frame.exits, "Exited (Qualified)",
                                                        timestamp_str),
                        !.inside_ids = frame.inside]
            IN /\ data' = write_zone(data, shared, frame.camera, frame.zone, v)
               /\ default_zone_config' =
                    write_default(default_zone_config, shared, frame.camera,
                                  frame.zone, v)
               /\ inside_zones' = SetZone(inside_zones, frame.camera,
                                          frame.zone, frame.inside)
               /\ frame' = [frame EXCEPT !.pc = "loop",
                                         !.done = @ \cup {frame.zone}]
               /\ UNCHANGED <<person_zone_history, person_state_buffer,
                              person_dwell_tracker, shared, zone_order, op>>
       ELSE /\ Return(FALSE, FALSE)
            /\ inside_zones' =
                 IF frame.entries = <<>> /\ frame.exits = <<>>
                   THEN SetZone(inside_zones, frame.camera, frame.zone,
                                frame.inside)
                   ELSE inside_zones
            /\ UNCHANGED <<data, default_zone_config, shared, zone_order,
                           person_zone_history, person_state_buffer,
                           person_dwell_tracker>>
  /\ UNCHANGED <<now, counted_n, FrameVars>>

(* the web thread may run when no call of its own has run in this frame *)
WebMayRun == frame.pc = "idle" \/ ~frame.web

WebRan(camera_id, zone, name) ==
  LET events == IF op'.ok /\ name = "reset_zone_counts"
                  THEN [entered |-> CountAction(data'[camera_id][zone].history,
                                                "Entered (Qualified)"),
                        exited |-> CountAction(data'[camera_id][zone].history,
                                               "Exited (Qualified)")]
                  ELSE [entered |-> 0, exited |-> 0]
  IN frame' = [frame EXCEPT
                 !.web = frame.pc # "idle",
                 !.interrupted =
                    \/ @
                    \/ /\ name = "reset_zone_counts" /\ op'.ok
                       /\ frame.pc = "in_count"
                       /\ frame.camera = camera_id /\ frame.zone = zone,
                 !.base = IF op'.ok THEN Put(@, <<camera_id, zone>>, events)
                                   ELSE @]

ConcurrentResetZoneCounts ==
  \E camera_id \in Cameras, zone \in AllZones :
    /\ WebMayRun
    /\ reset_zone_counts(camera_id, zone)
    /\ WebRan(camera_id, zone, "reset_zone_counts")
    /\ UNCHANGED sc

ConcurrentDeleteZone ==
  \E camera_id \in Cameras, zone \in AllZones :
    /\ WebMayRun
    /\ delete_zone(camera_id, zone)
    /\ WebRan(camera_id, zone, "delete_zone")
    /\ UNCHANGED sc

ConcurrentCreateOrUpdateZone ==
  \E camera_id \in Cameras, zone \in AllZones, rect \in Rects :
    /\ WebMayRun
    /\ create_or_update_zone(camera_id, zone, rect[1], rect[2])
    /\ WebRan(camera_id, zone, "create_or_update_zone")
    /\ UNCHANGED sc

ConcurrentNext ==
  \/ FrameBegin
  \/ FrameZone
  \/ FrameCountIn
  \/ FrameRest
  \/ ConcurrentResetZoneCounts
  \/ ConcurrentDeleteZone
  \/ ConcurrentCreateOrUpdateZone

ConcurrentInit ==
  /\ Constructed
  /\ FromHistoryFile
  /\ min_dwell_time = 1
  /\ exit_grace_time = 1

ConcurrentSpec == ConcurrentInit /\ [][ConcurrentNext]_vars

(* -------------------------- dwell specification ----------------------- *)
(* One camera, one zone, two persons that are each inside, outside or not  *)
(* in the frame; frames are 0.1 s apart, exit_grace_time is 0.1 s and the  *)
(* dwell threshold is set through set_dwell_time_threshold.                *)
DwellPersons == {7, 8}

DwellObservations(p) ==
  {<<>>, <<(<<p, 960, 500>>)>>, <<(<<p, 100, 100>>)>>}

DwellBatches == {a \o b : a \in DwellObservations(7), b \in DwellObservations(8)}

DwellOrders == {<<7, 8>>, <<8, 7>>}

DwellThresholds == {-1, 0, 1, 2}

DwellInit ==
  /\ Constructed
  /\ FromHistoryFile
  /\ min_dwell_time = 1
  /\ exit_grace_time = 1

DwellUpdateCounts ==
  \E camera_id \in Cameras, detected_people \in DwellBatches,
     order \in DwellOrders, d \in CameraDeltas :
    /\ now + d <= DwellMaxTime
    /\ update_counts(camera_id, detected_people, order, now + d)
    /\ UNCHANGED <<sc, frame>>

DwellSetDwellTimeThreshold ==
  \E min_dwell_seconds \in DwellThresholds :
    set_dwell_time_threshold(min_dwell_seconds) /\ UNCHANGED <<sc, frame>>

DwellDeleteZone ==
  \E camera_id \in Cameras, zone \in ZoneNames :
    delete_zone(camera_id, zone) /\ UNCHANGED <<sc, frame>>

DwellNext ==
  \/ DwellUpdateCounts
  \/ DwellSetDwellTimeThreshold
  \/ DwellDeleteZone

DwellSpec == DwellInit /\ [][DwellNext]_vars

(* -------------------------- reaper specification ---------------------- *)
(* Two cameras, min_dwell_time and exit_grace_time 0.1 s; person 7 is      *)
(* inside the default zone or not in the frame; frames are 0.1 s apart, or *)
(* come after a gap of 120.1 s, longer than both staleness windows.        *)
ReaperBatches == {<<>>} \cup {<<(<<p, 960, 500>>)>> : p \in Persons}

ReaperDeltas == {1, 1201}

ReaperInit ==
  /\ Constructed
  /\ FromHistoryFile
  /\ min_dwell_time = 1
  /\ exit_grace_time = 1

ReaperUpdateCounts ==
  \E camera_id \in AllCameras, detected_people \in ReaperBatches,
     order \in Orders, d \in ReaperDeltas :
    /\ now <= ReaperMaxTime
    /\ update_counts(camera_id, detected_people, order, now + d)
    /\ UNCHANGED <<sc, frame>>

ReaperNext == ReaperUpdateCounts

ReaperSpec == ReaperInit /\ [][ReaperNext]_vars

(* ------------------------ containment specification ------------------- *)
(* camera1 / zone1 with a rectangle out of PaddingRects (the last three    *)
(* are narrower or lower than twice the padding); the containment test is  *)
(* applied to the points of a grid around the rectangle that holds every   *)
(* multiple of 5 and its two neighbours.                                   *)
PaddingCoords == {k \in -1 .. PaddingMax : k % 5 \in {0, 1, 4}}

PaddingRects == { <<(<<0, 0>>), (<<40, 40>>)>>,
                  <<(<<0, 0>>), (<<20, 40>>)>>,
                  <<(<<0, 0>>), (<<21, 15>>)>>,
                  <<(<<10, 10>>), (<<10, 30>>)>> }

ZoneOf(rect) ==
  [z \in {"zone1"} |->
     [top_left |-> rect[1], bottom_right |-> rect[2],
      in_count |-> 0, out_count |-> 0, inside_ids |-> {}, history |-> <<>>]]

(* the state after __init__ with a history file that holds zones and with  *)
(* MIN_DWELL_FRAMES = frames                                               *)
ConstructedWith(zones, frames) ==
  /\ data = [c \in Cameras |-> zones]
  /\ inside_zones = [c \in Cameras |-> [z \in DOMAIN zones |-> {}]]
  /\ person_zone_history = [c \in Cameras |-> [z \in DOMAIN zones |-> EmptyDict]]
  /\ person_state_buffer = [c \in Cameras |-> [z \in DOMAIN zones |-> EmptyDict]]
  /\ person_dwell_tracker = [c \in Cameras |-> [z \in DOMAIN zones |-> EmptyDict]]
  /\ active_camera = "camera1"
  /\ min_dwell_frames = frames
  /\ min_dwell_time = 100
  /\ exit_grace_time = 100
  /\ now = 0
  /\ op = Call("__init__", "", "", TRUE)
  /\ active_person_ids = {}
  /\ entries_to_count = EmptyDict
  /\ exits_to_count = EmptyDict
  /\ raw_run = [c \in Cameras |-> [z \in DOMAIN zones |-> EmptyDict]]
  /\ counted_n = [c \in Cameras |-> [z \in DOMAIN zones |-> EmptyDict]]
  /\ sc = NoRun
  /\ default_zone_config = DEFAULT_ZONE_CONFIG
  /\ shared = {}
  /\ zone_order = [c \in Cameras |-> DefaultOrder]
  /\ frame = Idle

PaddingInit == \E rect \in PaddingRects : ConstructedWith(ZoneOf(rect), 3)

PaddingIsInside ==
  \E x \in PaddingCoords, y \in PaddingCoords :
    LET zone_data == data["camera1"]["zone1"] IN
      /\ op' = [name |-> "is_inside_zone_with_padding",
                x |-> x, y |-> y,
                top_left |-> zone_data.top_left,
                bottom_right |-> zone_data.bottom_right,
                result |-> is_inside_zone_with_padding(
                             x, y, zone_data.top_left, zone_data.bottom_right)]
      /\ UNCHANGED <<registry, active_camera, config, now, active_person_ids,
                     entries_to_count, exits_to_count, raw_run, counted_n,
                     sc, frame>>

PaddingNext == PaddingIsInside

PaddingSpec == PaddingInit /\ [][PaddingNext]_vars

(* ------------------------- debounce specification ---------------------- *)
(* update_person_state_buffer is called with raw booleans for the triple   *)
(* (camera1, zone1, 7), one call per tick, for every threshold of          *)
(* 1 .. MaxThreshold.                                                      *)
DebounceThresholds == 1 .. MaxThreshold

DebounceInit ==
  \E frames \in DebounceThresholds :
    ConstructedWith(DEFAULT_ZONE_CONFIG, frames)

DebounceUpdate ==
  \E is_inside \in BOOLEAN :
    LET r == update_person_state_buffer(
               person_state_buffer["camera1"]["zone1"], 7, is_inside, now + 1)
    IN /\ now <= DebounceMaxTime
       /\ now' = now + 1
       /\ person_state_buffer' =
            [person_state_buffer EXCEPT !["camera1"]["zone1"] = r.buffer]
       /\ op' = [name |-> "update_person_state_buffer", camera |-> "camera1",
                 zone |-> "zone1", person_id |-> 7, is_inside |-> is_inside,
                 result |-> r.stable]
       /\ UNCHANGED <<data, inside_zones, person_zone_history,
                      person_dwell_tracker, default_zone_config, shared,
                      zone_order, active_camera, config, active_person_ids,
                      entries_to_count, exits_to_count, raw_run, counted_n,
                      sc, frame>>

DebounceNext == DebounceUpdate

DebounceSpec == DebounceInit /\ [][DebounceNext]_vars

(* -------------------------- frames specification ----------------------- *)
(* One frame per tick: the k-th update_counts call runs at tick k.  A      *)
(* batch holds up to MaxCrowd observations, which carry the same id at     *)
(* different points (the id -1 of every untracked detection): two points   *)
(* of zone1 and three points outside of it.                                *)
FramesPoints ==
  {<<960, 500>>, <<700, 400>>, <<100, 100>>, <<200, 100>>, <<300, 100>>}

FramesObservations == {<<p, pt[1], pt[2]>> : p \in Persons, pt \in FramesPoints}

FramesBatches ==
  UNION {{s \in [1..n -> FramesObservations] :
            \A i, j \in 1..n : i # j => s[i] # s[j]} : n \in 0..MaxCrowd}

FramesInit == ConstructedWith(DEFAULT_ZONE_CONFIG, 3)

FramesUpdateCounts ==
  \E camera_id \in Cameras, detected_people \in FramesBatches, order \in Orders :
    /\ now <= FramesMaxTime
    /\ update_counts(camera_id, detected_people, order, now + 1)
    /\ UNCHANGED <<sc, frame>>

FramesNext == FramesUpdateCounts

FramesSpec == FramesInit /\ [][FramesNext]_vars

(* ----------------------- shared zone specification -------------------- *)
(* No history file: camera1 is built from DEFAULT_ZONE_CONFIG, camera2 is  *)
(* provisioned from it by its first update_counts call.  Frames are 0.1 s  *)
(* apart, min_dwell_time and exit_grace_time are 0.1 s; the web thread     *)
(* resets zones between frames.                                            *)
SharedInit ==
  /\ Constructed
  /\ FromDefaultConfig
  /\ min_dwell_time = 1
  /\ exit_grace_time = 1

SharedUpdateCounts ==
  \E camera_id \in AllCameras, detected_people \in ReaperBatches,
     order \in Orders :
    /\ now <= SharedMaxTime
    /\ update_counts(camera_id, detected_people, order, now + 1)
    /\ UNCHANGED <<sc, frame>>

SharedResetZoneCounts ==
  \E camera_id \in AllCameras, zone \in ZoneNames :
    reset_zone_counts(camera_id, zone) /\ UNCHANGED <<sc, frame>>

SharedNext ==
  \/ SharedUpdateCounts
  \/ SharedResetZoneCounts

SharedSpec == SharedInit /\ [][SharedNext]_vars

(* ------------------------- pipeline specification --------------------- *)
(* The web thread starts the pipeline with one or two video sources on a   *)
(* counter constructed without a history file (camera1 only), then zones   *)
(* are created and deleted and frames arrive 0.1 s apart.                  *)
VideoSources == {<<"camera1">>, <<"camera1", "camera2">>}

PipelineStart ==
  \E camera_ids \in VideoSources :
    start_pipeline(camera_ids) /\ UNCHANGED <<sc, frame>>

PipelineUpdateCounts ==
  \E camera_id \in AllCameras, detected_people \in ZonesBatches,
     order \in Orders, d \in CameraDeltas :
    /\ now + d <= PipelineMaxTime
    /\ update_counts(camera_id, detected_people, order, now + d)
    /\ UNCHANGED <<sc, frame>>

PipelineCreateOrUpdateZone ==
  \E camera_id \in AllCameras, zone \in ZoneNames, rect \in Rects :
    create_or_update_zone(camera_id, zone, rect[1], rect[2])
      /\ UNCHANGED <<sc, frame>>

PipelineDeleteZone ==
  \E camera_id \in AllCameras, zone \in ZoneNames :
    delete_zone(camera_id, zone) /\ UNCHANGED <<sc, frame>>

PipelineNext ==
  \/ PipelineStart
  \/ PipelineUpdateCounts
  \/ PipelineCreateOrUpdateZone
  \/ PipelineDeleteZone

PipelineInit ==
  /\ Constructed
  /\ FromDefaultConfig
  /\ min_dwell_time = 1
  /\ exit_grace_time = 1

PipelineSpec == PipelineInit /\ [][PipelineNext]_vars

(* ------------------------------ properties ----------------------------- *)
Zone(c, z) == data[c][z]

Tracker(c, z) == Get(Get(person_dwell_tracker, c), z)

Entered == "Entered (Qualified)"

Exited == "Exited (Qualified)"

(* the ids of the history events the step appended to the zone *)
AppendedIds(c, z) ==
  LET old == data[c][z].history
      new == data'[c][z].history
  IN [i \in 1..(Len(new) - Len(old)) |-> new[Len(old) + i].id]

IsFrame == op.name = "update_counts"

(* C1: an update_counts call counts an entry or an exit of a person in a   *)
(* zone (and appends its history event) only if update_person_state_buffer *)
(* has before seen min_dwell_frames consecutive inside observations of     *)
(* that person for that zone; a person seen inside for fewer frames is     *)
(* never counted.                                                          *)
C1_NoCountBeforeStable ==
  IsFrame =>
    \A z \in DOMAIN entries_to_count :
      \A p \in Range(entries_to_count[z]) \cup Range(exits_to_count[z]) :
        /\ p \in DOMAIN raw_run[op.camera][z]
        /\ raw_run[op.camera][z][p].reached

C1_Witness ==
  /\ IsFrame
  /\ "zone1" \in DOMAIN entries_to_count
  /\ 7 \in Range(entries_to_count["zone1"])
  /\ raw_run[op.camera]["zone1"][7].reached

(* C3: between the creation of a dwell record and its deletion at most one *)
(* qualified entry is counted for it, also when the id occurs several      *)
(* times in one batch; the flag counted_entry tells whether it was.        *)
C3_OneEntryPerRecord ==
  \A c \in DOMAIN person_dwell_tracker :
    \A z \in DOMAIN person_dwell_tracker[c] :
      \A p \in DOMAIN person_dwell_tracker[c][z] :
        /\ counted_n[c][z][p] <= 1
        /\ person_dwell_tracker[c][z][p].counted_entry
             <=> counted_n[c][z][p] = 1
        /\ (IsFrame /\ op.camera = c /\ z \in DOMAIN entries_to_count)
             => Occ(p, entries_to_count[z]) <= 1

(* after a confirmed exit the same id has qualified again *)
C3_Witness ==
  LET h == data["camera1"]["zone1"].history
  IN /\ "zone1" \in DOMAIN data["camera1"]
     /\ Len(h) >= 3
     /\ h[1].action = Entered /\ h[1].id = 7
     /\ h[2].action = Exited /\ h[2].id = 7
     /\ h[3].action = Entered /\ h[3].id = 7
     /\ data["camera1"]["zone1"].in_count = 2

(* C4: when update_counts deletes an exiting record by confirming the exit *)
(* (the reaper did not take it), out_count rises by one and one Exited     *)
(* event is appended for the person iff the record had counted_entry; an   *)
(* uncounted record adds no event.  A lost track whose grace period has    *)
(* elapsed is confirmed and deleted whatever counted_entry is.             *)
C4_ExitStep ==
  op'.name = "update_counts" =>
    LET c == op'.camera IN
    \A z \in DOMAIN Get(data, c) :
      LET before == Tracker(c, z)
          after == person_dwell_tracker'[c][z]
      IN
      /\ data'[c][z].out_count = data[c][z].out_count + Len(exits_to_count'[z])
      /\ \A p \in DOMAIN before :
           LET live == /\ before[p].state = "exiting"
                       /\ now' - before[p].exit_time <= DwellStaleThreshold
           IN
           /\ (live /\ p \notin DOMAIN after) =>
                /\ Occ(p, exits_to_count'[z])
                     = (IF before[p].counted_entry THEN 1 ELSE 0)
                /\ Occ(p, AppendedIds(c, z))
                     = (IF before[p].counted_entry THEN 1 ELSE 0)
                /\ Occ(p, entries_to_count'[z]) = 0
           /\ (live /\ p \notin active_person_ids'
                    /\ now' - before[p].exit_time >= exit_grace_time)
                => p \notin DOMAIN after

C4_ExitCountedIffQualified == [][C4_ExitStep]_vars

(* a counted exit of a lost track has just been confirmed *)
C4_Witness ==
  /\ IsFrame
  /\ "zone1" \in DOMAIN exits_to_count
  /\ 7 \in Range(exits_to_count["zone1"])
  /\ 7 \notin active_person_ids
  /\ 7 \notin DOMAIN Tracker("camera1", "zone1")
  /\ data["camera1"]["zone1"].out_count = 1

(* C5: in every state, for every zone, in_count - out_count is at most the *)
(* number of dwell records of the zone with counted_entry = true.          *)
C5_NetCountBound ==
  \A c \in DOMAIN data :
    \A z \in DOMAIN data[c] :
      data[c][z].in_count - data[c][z].out_count
        <= Cardinality({p \in DOMAIN Tracker(c, z) :
                          Tracker(c, z)[p].counted_entry})

(* C9: for a zone that continues to exist, in_count and out_count do not   *)
(* decrease in any operation other than reset_zone_counts.                 *)
C9_Step ==
  op'.name # "reset_zone_counts" =>
    \A c \in (DOMAIN data) \cap (DOMAIN data') :
      \A z \in (DOMAIN data[c]) \cap (DOMAIN data'[c]) :
        /\ data'[c][z].in_count >= data[c][z].in_count
        /\ data'[c][z].out_count >= data[c][z].out_count

C9_CountsMonotonic == [][C9_Step]_vars

(* C10: create_or_update_zone with a valid rectangle for a zone that       *)
(* exists keeps the zone's in_count and out_count.                         *)
C10_Step ==
  (/\ op'.name = "create_or_update_zone"
   /\ op'.ok
   /\ op'.camera \in DOMAIN data
   /\ op'.zone \in DOMAIN data[op'.camera]) =>
    /\ data'[op'.camera][op'.zone].in_count = data[op'.camera][op'.zone].in_count
    /\ data'[op'.camera][op'.zone].out_count = data[op'.camera][op'.zone].out_count

C10_UpdateKeepsCounts == [][C10_Step]_vars

(* C13: a successful reset_zone_counts leaves the zone with in_count = 0,   *)
(* out_count = 0 and no inside ids, and the same call made again right     *)
(* after it changes nothing in the registry, inside_zones, the debounce    *)
(* buffer or the dwell tracker.                                            *)
C13_Step ==
  /\ (op'.name = "reset_zone_counts" /\ op'.ok) =>
       /\ data'[op'.camera][op'.zone].in_count = 0
       /\ data'[op'.camera][op'.zone].out_count = 0
       /\ data'[op'.camera][op'.zone].inside_ids = {}
       /\ inside_zones'[op'.camera][op'.zone] = {}
  /\ (op.name = "reset_zone_counts" /\ op.ok /\ op' = op) =>
       UNCHANGED registry

C13_ResetIdempotent == [][C13_Step]_vars

(* a zone that had counted an entry and had a person inside was reset *)
C13_Witness ==
  /\ op.name = "reset_zone_counts" /\ op.ok
  /\ Len(data[op.camera][op.zone].history) >= 1
  /\ data[op.camera][op.zone].in_count = 0
  /\ person_dwell_tracker[op.camera][op.zone] = EmptyDict

(* C14: after create_or_update_zone with a valid rectangle the snapshot of *)
(* the zone (get_zone_statistics, and the registry entry that get_zones    *)
(* and get_all_data return) has the rectangle of the call, in_count = 0,   *)
(* out_count = 0, no inside ids and no history.                            *)
C14_Step ==
  \A camera_id \in Cameras, zone \in ZoneNames, rect \in Rects :
    (/\ ~(rect[1][1] >= rect[2][1] \/ rect[1][2] >= rect[2][2])
     /\ create_or_update_zone(camera_id, zone, rect[1], rect[2])) =>
      LET stats == get_zone_statistics(camera_id, zone, now)'
      IN /\ stats # None
         /\ stats.zone_coordinates = [top_left |-> rect[1], bottom_right |-> rect[2]]
         /\ stats.in_count = 0 /\ stats.out_count = 0 /\ stats.net_count = 0
         /\ stats.inside_ids = {} /\ stats.current_occupancy = 0
         /\ stats.total_events = 0
         /\ data'[camera_id][zone].top_left = rect[1]
         /\ data'[camera_id][zone].bottom_right = rect[2]
         /\ data'[camera_id][zone].history = <<>>

C14_CreateReadRoundTrip == [][C14_Step]_vars

(* a zone was created with a rectangle other than the default one *)
C14_Witness ==
  /\ op.name = "create_or_update_zone" /\ op.ok
  /\ get_zone_statistics(op.camera, op.zone, now) # None
  /\ get_zone_statistics(op.camera, op.zone, now).zone_coordinates
       = [top_left |-> <<0, 0>>, bottom_right |-> <<400, 400>>]
  /\ get_zone_statistics(op.camera, op.zone, now).total_events = 0

(* C19: when update_counts removes the dwell record of a person that is    *)
(* not in the frame and the record had counted_entry, the person is in     *)
(* exits_to_count exactly once (out_count rises by one for it).            *)
C19_Step ==
  op'.name = "update_counts" =>
    LET c == op'.camera IN
    \A z \in DOMAIN Get(data, c) :
      \A p \in DOMAIN Tracker(c, z) :
        (/\ Tracker(c, z)[p].counted_entry
         /\ p \notin active_person_ids'
         /\ p \notin DOMAIN person_dwell_tracker'[c][z]) =>
          /\ Occ(p, exits_to_count'[z]) = 1
          /\ data'[c][z].out_count >= data[c][z].out_count + 1

C19_LostTrackCountedOut == [][C19_Step]_vars

(* C29: the Exited event that update_counts appends for a confirmed exit   *)
(* carries the time of the record's exit_time, the moment the person left. *)
C29_Step ==
  op'.name = "update_counts" =>
    LET c == op'.camera IN
    \A z \in DOMAIN Get(data, c) :
      LET old == data[c][z].history
          new == data'[c][z].history
      IN \A i \in (Len(old) + 1)..Len(new) :
           (/\ new[i].action = Exited
            /\ new[i].id \in DOMAIN Tracker(c, z)
            /\ Tracker(c, z)[new[i].id].state = "exiting") =>
             new[i].time = strftime(Tracker(c, z)[new[i].id].exit_time)

C29_ExitedAtExitTime == [][C29_Step]_vars

(* C30: an operation on a zone that exists before and after it            *)
(* (update_counts, reset_zone_counts, create_or_update_zone for the zone)  *)
(* only appends to the zone's history: the history before is a prefix of   *)
(* the history after.                                                      *)
C30_Step ==
  \A c \in (DOMAIN data) \cap (DOMAIN data') :
    \A z \in (DOMAIN data[c]) \cap (DOMAIN data'[c]) :
      /\ Len(data[c][z].history) <= Len(data'[c][z].history)
      /\ SubSeq(data'[c][z].history, 1, Len(data[c][z].history))
           = data[c][z].history

C30_HistoryAppendOnly == [][C30_Step]_vars

(* the trackers as cleanup_stale_buffers leaves them at the start of the   *)
(* update_counts call that the step makes                                  *)
Reaped ==
  cleanup_stale_buffers(person_state_buffer, person_dwell_tracker, op'.camera,
                        active_person_ids', now')

(* C24: after the cleanup_stale_buffers call of an update_counts call no   *)
(* dwell record of the camera is left whose last activity (exit_time when  *)
(* exiting, last_seen when inside) is more than 2 minutes old.             *)
C24_Step ==
  (op'.name = "update_counts" /\ op'.camera \in DOMAIN person_dwell_tracker) =>
    \A z \in DOMAIN Reaped.trackers[op'.camera] :
      \A p \in DOMAIN Reaped.trackers[op'.camera][z] :
        LET tracker_data == Reaped.trackers[op'.camera][z][p]
            last_activity == IF tracker_data.state = "exiting"
                               THEN tracker_data.exit_time
                               ELSE tracker_data.last_seen
        IN now' - last_activity <= DwellStaleThreshold

C24_NoStaleRecordLeft == [][C24_Step]_vars

(* C25: after an update_counts call every debounce entry of the camera is  *)
(* of a person of the batch; a person that was missing from the frame      *)
(* before starts again at count 1 per observation, and gets no stable      *)
(* report (no dwell transition, no count, not in inside_ids) until its     *)
(* count has reached min_dwell_frames again.                               *)
C25_OnlyActive ==
  (IsFrame /\ op.camera \in DOMAIN person_state_buffer) =>
    \A z \in DOMAIN person_state_buffer[op.camera] :
      DOMAIN person_state_buffer[op.camera][z] \subseteq active_person_ids

C25_Step ==
  (op'.name = "update_counts" /\ op'.camera \in DOMAIN data) =>
    LET c == op'.camera IN
    \A z \in DOMAIN data[c] :
      \A p \in DOMAIN person_state_buffer'[c][z] :
        p \notin DOMAIN person_state_buffer[c][z] =>
          /\ person_state_buffer'[c][z][p].count <= MaxBatch
          /\ person_state_buffer'[c][z][p].count < min_dwell_frames =>
               /\ p \notin data'[c][z].inside_ids
               /\ Occ(p, entries_to_count'[z]) = 0
               /\ Occ(p, exits_to_count'[z]) = 0
               /\ \/ /\ p \notin DOMAIN Reaped.trackers[c][z]
                     /\ p \notin DOMAIN person_dwell_tracker'[c][z]
                  \/ /\ p \in DOMAIN Reaped.trackers[c][z]
                     /\ p \in DOMAIN person_dwell_tracker'[c][z]
                     /\ person_dwell_tracker'[c][z][p] = Reaped.trackers[c][z][p]

C25_DebounceOnlyForBatch == []C25_OnlyActive /\ [][C25_Step]_vars

(* person 7 is back in the frame after a frame without it: its run of      *)
(* equal raw observations is 2 or more, its debounce count is 1 again      *)
C25_Witness ==
  /\ IsFrame /\ 7 \in active_person_ids /\ now < StaleThreshold
  /\ "zone1" \in DOMAIN person_state_buffer["camera1"]
  /\ 7 \in DOMAIN person_state_buffer["camera1"]["zone1"]
  /\ person_state_buffer["camera1"]["zone1"][7].count = 1
  /\ raw_run["camera1"]["zone1"][7].n >= 2
  /\ raw_run["camera1"]["zone1"][7].state
       = person_state_buffer["camera1"]["zone1"][7].state

(* ----------------------- multi-camera properties ----------------------- *)
ZoneExistsIn(d, camera_id, zone) ==
  camera_id \in DOMAIN d /\ zone \in DOMAIN d[camera_id]

ZoneExists(camera_id, zone) == ZoneExistsIn(data, camera_id, zone)

(* C11: every zone of the registry has top_left < bottom_right on both     *)
(* axes, and a create_or_update_zone call that returns False for its       *)
(* rectangle changes nothing in the registry and the tracking sub-state:   *)
(* no camera is provisioned, an existing zone keeps rectangle and counts.  *)
C11_Valid ==
  \A c \in DOMAIN data :
    \A z \in DOMAIN data[c] :
      /\ data[c][z].top_left[1] < data[c][z].bottom_right[1]
      /\ data[c][z].top_left[2] < data[c][z].bottom_right[2]

C11_Step ==
  \A camera_id \in AllCameras, zone \in ZoneNames, rect \in Rects :
    (/\ rect[1][1] >= rect[2][1] \/ rect[1][2] >= rect[2][2]
     /\ create_or_update_zone(camera_id, zone, rect[1], rect[2])) =>
      /\ ~op'.ok
      /\ UNCHANGED registry

C11_RectangleInvariant == []C11_Valid /\ [][C11_Step]_vars

(* a degenerate rectangle was refused for a zone that has counted an entry *)
(* while the other camera has no registry entry                            *)
C11_Witness ==
  /\ op.name = "create_or_update_zone" /\ ~op.ok
  /\ ZoneExists(op.camera, op.zone)
  /\ data[op.camera][op.zone].in_count = 1
  /\ \E c \in AllCameras : c \notin DOMAIN data

(* C12: reset_zone_counts and delete_zone for a camera or zone that does   *)
(* not exist return False and change nothing; after a successful           *)
(* delete_zone the zone does not exist (a second delete fails);            *)
(* create_or_update_zone with a valid rectangle returns True and the zone  *)
(* exists afterwards, also when the camera had no registry entry.          *)
C12_Step ==
  /\ (op'.name \in {"reset_zone_counts", "delete_zone"}
        /\ ~ZoneExists(op'.camera, op'.zone)) =>
       (~op'.ok /\ UNCHANGED registry)
  /\ (op'.name = "delete_zone" /\ ZoneExists(op'.camera, op'.zone)) =>
       (op'.ok /\ ~ZoneExistsIn(data', op'.camera, op'.zone))
  /\ \A camera_id \in AllCameras, zone \in ZoneNames, rect \in Rects :
       (/\ rect[1][1] < rect[2][1] /\ rect[1][2] < rect[2][2]
        /\ create_or_update_zone(camera_id, zone, rect[1], rect[2])) =>
         (op'.ok /\ ZoneExistsIn(data', camera_id, zone))

C12_MissingTargets == [][C12_Step]_vars

(* the zone of a camera that create_or_update_zone provisioned was deleted *)
(* and the second delete_zone failed                                       *)
C12_Witness ==
  /\ op.name = "delete_zone" /\ ~op.ok
  /\ op.camera \in DOMAIN data
  /\ op.camera \notin {"camera1"}
  /\ data[op.camera] = EmptyDict
  /\ now = 0

(* C17: an operation for one camera leaves the zones of every other camera *)
(* as they were (rectangle, counts, inside ids, history).                  *)
C17_Step ==
  op'.name \in {"update_counts", "reset_zone_counts", "delete_zone",
                "create_or_update_zone"} =>
    \A b \in DOMAIN data :
      b # op'.camera => (b \in DOMAIN data' /\ data'[b] = data[b])

C17_CameraPartition == [][C17_Step]_vars

WellFormed(person_data) == Len(person_data) \in {3, 5}

(* C18: an update_counts call whose batch holds a malformed tuple leaves   *)
(* the registry, inside_zones, the debounce buffer and the dwell tracker   *)
(* as the same call without the malformed tuples leaves them.              *)
C18_Step ==
  \A camera_id \in AllCameras, detected_people \in CameraBatches,
     order \in Orders :
    (/\ \E i \in DOMAIN detected_people : ~WellFormed(detected_people[i])
     /\ update_counts(camera_id, detected_people, order, now')) =>
      LET r == update_counts_result(camera_id,
                                    SelectSeq(detected_people, WellFormed),
                                    order, now')
      IN /\ data' = r.data
         /\ inside_zones' = r.inside_zones
         /\ person_state_buffer' = r.person_state_buffer
         /\ person_dwell_tracker' = r.person_dwell_tracker

C18_MalformedSkipped == [][C18_Step]_vars

(* C33: an update_counts call for a camera that is not in the registry    *)
(* provisions it with the default zone (zone1, [640,360]-[1280,700]) whose *)
(* in_count and out_count are 0 and whose history and inside_ids are empty *)
(* when the batch starts to be processed.                                  *)
C33_Step ==
  \A camera_id \in AllCameras :
    (/\ op'.name = "update_counts"
     /\ op'.camera = camera_id
     /\ camera_id \notin DOMAIN data) =>
      LET provisioned == before_zones(camera_id, <<>>, now').data[camera_id]
      IN /\ DOMAIN provisioned = {"zone1"}
         /\ provisioned["zone1"].top_left = <<640, 360>>
         /\ provisioned["zone1"].bottom_right = <<1280, 700>>
         /\ provisioned["zone1"].in_count = 0
         /\ provisioned["zone1"].out_count = 0
         /\ provisioned["zone1"].history = <<>>

C33_ProvisionedAtZero == [][C33_Step]_vars

(* C37: in every reachable state out_count <= in_count holds for every    *)
(* zone of every camera.                                                   *)
C37_OutAtMostIn ==
  \A c \in DOMAIN data :
    \A z \in DOMAIN data[c] :
      data[c][z].out_count <= data[c][z].in_count

(* ------------------------ multi-zone properties ------------------------ *)
(* C20: an update_counts call that changes in_count or out_count of a zone *)
(* of the camera calls save_data.                                          *)
C20_Step ==
  (/\ op'.name = "update_counts"
   /\ \E z \in DOMAIN Get(data, op'.camera) :
        \/ data'[op'.camera][z].in_count # data[op'.camera][z].in_count
        \/ data'[op'.camera][z].out_count # data[op'.camera][z].out_count)
    => op'.saved

C20_CountChangeSaved == [][C20_Step]_vars

(* C32: a successful reset_zone_counts sets in_count and out_count to 0   *)
(* and inside_ids to empty, removes every debounce state and dwell record  *)
(* of the zone, keeps its rectangle, and leaves the counts, history and    *)
(* tracking state of every other zone of the camera unchanged.             *)
C32_Step ==
  \A c \in Cameras, z \in AllZones :
    (op'.name = "reset_zone_counts" /\ op'.ok /\ op'.camera = c /\ op'.zone = z) =>
      /\ ZoneExistsIn(data', c, z)
      /\ data'[c][z].in_count = 0
      /\ data'[c][z].out_count = 0
      /\ data'[c][z].inside_ids = {}
      /\ data'[c][z].top_left = data[c][z].top_left
      /\ data'[c][z].bottom_right = data[c][z].bottom_right
      /\ DOMAIN person_state_buffer'[c][z] = {}
      /\ DOMAIN person_dwell_tracker'[c][z] = {}
      /\ \A y \in DOMAIN data[c] \ {z} :
           /\ ZoneExistsIn(data', c, y)
           /\ data'[c][y] = data[c][y]
           /\ inside_zones'[c][y] = inside_zones[c][y]
           /\ person_zone_history'[c][y] = person_zone_history[c][y]
           /\ person_state_buffer'[c][y] = person_state_buffer[c][y]
           /\ person_dwell_tracker'[c][y] = person_dwell_tracker[c][y]

C32_ResetOneZone == [][C32_Step]_vars

(* a zone that had counted an entry has been reset while the other zone of *)
(* the camera holds a count, a debounce state and a dwell record           *)
C32_Witness ==
  /\ op.name = "reset_zone_counts"
  /\ op.ok
  /\ ZoneExists(op.camera, op.zone)
  /\ Len(data[op.camera][op.zone].history) > 0
  /\ \E y \in DOMAIN data[op.camera] \ {op.zone} :
       /\ data[op.camera][y].in_count > 0
       /\ DOMAIN person_state_buffer[op.camera][y] # {}
       /\ DOMAIN person_dwell_tracker[op.camera][y] # {}

(* ------------------------ concurrent properties ------------------------ *)
BaseOf(camera_id, zone) ==
  IF <<camera_id, zone>> \in DOMAIN frame.base
    THEN frame.base[<<camera_id, zone>>]
    ELSE [entered |-> 0, exited |-> 0]

(* C15: a frame that runs while the web thread makes a call behaves as in  *)
(* a serial order: an in_count increment that was decided before a         *)
(* reset_zone_counts of the zone is not applied after the reset, and the   *)
(* call does not end by an exception while zones of its loop that still    *)
(* exist are unprocessed.                                                  *)
C15_Step ==
  /\ (frame.pc = "in_count" /\ frame.interrupted /\ frame'.pc = "rest") =>
       data'[frame.camera][frame.zone].in_count
         = data[frame.camera][frame.zone].in_count
  /\ (frame.pc # "idle" /\ frame'.pc = "idle" /\ ~op'.ok) =>
       \A z \in Range(frame.left) : ~ZoneExistsIn(data', frame.camera, z)

C15_Serialised == [][C15_Step]_vars

(* C16: in every state, which a snapshot read can see, the in_count of a   *)
(* zone is the number of Entered events appended to its history since the  *)
(* zone's creation or last reset, and out_count that of Exited events.     *)
C16_NoTornRead ==
  \A c \in DOMAIN data :
    \A z \in DOMAIN data[c] :
      /\ data[c][z].in_count
           = CountAction(data[c][z].history, Entered) - BaseOf(c, z).entered
      /\ data[c][z].out_count
           = CountAction(data[c][z].history, Exited) - BaseOf(c, z).exited

(* ---------------------------- dwell properties ------------------------- *)
(* C22: set_dwell_time_threshold with a value that is not strictly         *)
(* positive returns False and leaves min_dwell_time as it was, so that     *)
(* min_dwell_time > 0 in every reachable state.                            *)
C22_Step ==
  \A min_dwell_seconds \in DwellThresholds :
    (min_dwell_seconds <= 0 /\ set_dwell_time_threshold(min_dwell_seconds)) =>
      (~op'.ok /\ min_dwell_time' = min_dwell_time)

C22_PositiveThreshold == [](min_dwell_time > 0) /\ [][C22_Step]_vars

(* C23: get_current_dwell_info returns one entry for each dwell record of  *)
(* the zone, inside or exiting, with dwell_time = now - entry_time, in     *)
(* order of non-increasing dwell_time, whatever the order of the tracker's *)
(* keys; for a camera or zone that does not exist it returns the empty     *)
(* list.                                                                   *)
C23_DwellInfoSorted ==
  \A camera_id \in Cameras \cup {"camera9"}, zone \in ZoneNames \cup {"zone9"},
     order \in DwellOrders :
    LET dwell_info == get_current_dwell_info(camera_id, zone, order, now)
    IN IF zone_missing(camera_id, zone)
         THEN dwell_info = <<>>
         ELSE
           LET zone_tracker == person_dwell_tracker[camera_id][zone]
           IN /\ Len(dwell_info) = Cardinality(DOMAIN zone_tracker)
              /\ \A p \in DOMAIN zone_tracker :
                   \E i \in DOMAIN dwell_info :
                     /\ dwell_info[i].person_id = p
                     /\ dwell_info[i].state = zone_tracker[p].state
                     /\ dwell_info[i].dwell_time = now - zone_tracker[p].entry_time
              /\ \A i, j \in DOMAIN dwell_info :
                   i < j => dwell_info[i].dwell_time >= dwell_info[j].dwell_time

(* two records, one of them exiting, with different dwell times: the one   *)
(* that entered first is listed first for both orders of the keys          *)
C23_Witness ==
  /\ ~zone_missing("camera1", "zone1")
  /\ DOMAIN person_dwell_tracker["camera1"]["zone1"] = {7, 8}
  /\ person_dwell_tracker["camera1"]["zone1"][8].state = "exiting"
  /\ person_dwell_tracker["camera1"]["zone1"][7].state = "inside"
  /\ person_dwell_tracker["camera1"]["zone1"][8].entry_time
       < person_dwell_tracker["camera1"]["zone1"][7].entry_time
  /\ \A order \in DwellOrders :
       /\ get_current_dwell_info("camera1", "zone1", order, now)[1].person_id = 8
       /\ get_current_dwell_info("camera1", "zone1", order, now)[2].person_id = 7

(* C40: every dwell record is well formed: its state is inside or         *)
(* exiting, exit_time is set exactly when the state is exiting,            *)
(* entry_time <= last_seen, exit_time >= entry_time when set, and          *)
(* counted_entry, once true, stays true as long as the record exists.      *)
RecordWellFormed(r) ==
  /\ r.state \in {"inside", "exiting"}
  /\ (r.exit_time # NoTime) <=> (r.state = "exiting")
  /\ r.entry_time <= r.last_seen
  /\ r.exit_time # NoTime => r.exit_time >= r.entry_time

C40_WellFormed ==
  \A c \in DOMAIN person_dwell_tracker :
    \A z \in DOMAIN person_dwell_tracker[c] :
      \A p \in DOMAIN person_dwell_tracker[c][z] :
        RecordWellFormed(person_dwell_tracker[c][z][p])

C40_Step ==
  \A c \in DOMAIN person_dwell_tracker :
    \A z \in DOMAIN person_dwell_tracker[c] :
      \A p \in DOMAIN person_dwell_tracker[c][z] :
        (/\ person_dwell_tracker[c][z][p].counted_entry
         /\ c \in DOMAIN person_dwell_tracker'
         /\ z \in DOMAIN person_dwell_tracker'[c]
         /\ p \in DOMAIN person_dwell_tracker'[c][z]
         /\ person_dwell_tracker'[c][z][p].entry_time
              = person_dwell_tracker[c][z][p].entry_time) =>
          person_dwell_tracker'[c][z][p].counted_entry

C40_DwellRecordWellFormed == []C40_WellFormed /\ [][C40_Step]_vars

(* a counted record is exiting, with its exit_time set after a stay that   *)
(* is later than its entry                                                 *)
C40_Witness ==
  \E c \in DOMAIN person_dwell_tracker :
    \E z \in DOMAIN person_dwell_tracker[c] :
      \E p \in DOMAIN person_dwell_tracker[c][z] :
        LET r == person_dwell_tracker[c][z][p] IN
          /\ r.state = "exiting"
          /\ r.counted_entry
          /\ r.exit_time > r.entry_time
          /\ r.last_seen > r.entry_time

(* --------------------------- reaper properties ------------------------- *)
(* C26: the part of update_counts up to and including the call of          *)
(* cleanup_stale_buffers, for a camera that is in the registry, changes    *)
(* nothing but the debounce and dwell entries of that camera: the zones    *)
(* (counts, inside ids, history, rectangles), inside_zones and the other   *)
(* cameras' tracking entries are as before, also when a record with        *)
(* counted_entry is discarded.                                             *)
C26_Step ==
  \A camera_id \in AllCameras, detected_people \in ReaperBatches,
     order \in Orders :
    (/\ camera_id \in DOMAIN data
     /\ update_counts(camera_id, detected_people, order, now')) =>
      LET pre == before_zones(camera_id, detected_people, now')
      IN /\ pre.data = data
         /\ pre.inside_zones = inside_zones
         /\ pre.person_zone_history = person_zone_history
         /\ DOMAIN pre.person_state_buffer = DOMAIN person_state_buffer
         /\ DOMAIN pre.person_dwell_tracker = DOMAIN person_dwell_tracker
         /\ \A b \in DOMAIN person_state_buffer :
              b # camera_id =>
                /\ pre.person_state_buffer[b] = person_state_buffer[b]
                /\ pre.person_dwell_tracker[b] = person_dwell_tracker[b]
         /\ \A z \in DOMAIN person_dwell_tracker[camera_id] :
              \A p \in DOMAIN person_dwell_tracker[camera_id][z] :
                p \in DOMAIN pre.person_dwell_tracker[camera_id][z] =>
                  pre.person_dwell_tracker[camera_id][z][p]
                    = person_dwell_tracker[camera_id][z][p]

C26_ReaperFrame == [][C26_Step]_vars

(* the counted record of person 7 on camera1 was discarded by the reaper   *)
(* (in_count 1, out_count 0, no record) while camera2 keeps the debounce   *)
(* state of the person                                                     *)
C26_Witness ==
  /\ IsFrame /\ op.camera = "camera1"
  /\ data["camera1"]["zone1"].in_count = 1
  /\ data["camera1"]["zone1"].out_count = 0
  /\ 7 \notin DOMAIN person_dwell_tracker["camera1"]["zone1"]
  /\ "camera2" \in DOMAIN person_state_buffer
  /\ 7 \in DOMAIN person_state_buffer["camera2"]["zone1"]

(* -------------------------- pipeline properties ------------------------ *)
(* C21: when an update_counts call has returned (no exception reaches the  *)
(* caller: the call is total), the loop body has run to its end for every  *)
(* zone of the camera, also for a camera without zones and for a camera    *)
(* that start_pipeline put into the registry.                              *)
C21_AllZonesProcessed ==
  op.name = "update_counts" =>
    /\ op.camera \in DOMAIN data
    /\ op.processed = DOMAIN data[op.camera]

(* C31: debounce states and dwell records exist only for zones that are in *)
(* the registry, also after delete_zone and after start_pipeline has       *)
(* re-initialised the registry.                                            *)
C31_TrackingOnlyForZones ==
  /\ \A c \in DOMAIN person_state_buffer :
       \A z \in DOMAIN person_state_buffer[c] :
         DOMAIN person_state_buffer[c][z] # {} => ZoneExists(c, z)
  /\ \A c \in DOMAIN person_dwell_tracker :
       \A z \in DOMAIN person_dwell_tracker[c] :
         DOMAIN person_dwell_tracker[c][z] # {} => ZoneExists(c, z)

(* C39: every camera of the registry has an entry in inside_zones,         *)
(* person_zone_history, person_state_buffer and person_dwell_tracker, so   *)
(* that a create_or_update_zone call that returns False has written        *)
(* nothing into the registry.                                              *)
C39_Tracked ==
  \A c \in DOMAIN data :
    /\ c \in DOMAIN inside_zones
    /\ c \in DOMAIN person_zone_history
    /\ c \in DOMAIN person_state_buffer
    /\ c \in DOMAIN person_dwell_tracker

C39_Step ==
  (op'.name = "create_or_update_zone" /\ ~op'.ok) => data' = data

C39_CameraTracked == []C39_Tracked /\ [][C39_Step]_vars

(* ------------------------ containment properties ----------------------- *)
Within(x, y, left, top, right, bottom) ==
  /\ left <= x /\ x <= right
  /\ top <= y /\ y <= bottom

(* C34: is_inside_zone_with_padding is true exactly when the point lies,   *)
(* boundaries included, in the rectangle shrunk by the padding on all four *)
(* sides, or, when the shrunk rectangle is degenerate (left >= right or    *)
(* top >= bottom), in the unpadded rectangle; the call changes no state.   *)
C34_Step ==
  op'.name = "is_inside_zone_with_padding" =>
    LET left == op'.top_left[1] + zone_padding
        top == op'.top_left[2] + zone_padding
        right == op'.bottom_right[1] - zone_padding
        bottom == op'.bottom_right[2] - zone_padding
    IN /\ op'.result =
            IF left >= right \/ top >= bottom
              THEN Within(op'.x, op'.y, op'.top_left[1], op'.top_left[2],
                          op'.bottom_right[1], op'.bottom_right[2])
              ELSE Within(op'.x, op'.y, left, top, right, bottom)
       /\ UNCHANGED <<registry, active_camera, config>>

C34_PaddedContainment == [][C34_Step]_vars

(* a point of the padding band of a rectangle that is wider and higher     *)
(* than twice the padding is reported outside                              *)
C34_Witness ==
  /\ op.name = "is_inside_zone_with_padding"
  /\ op.bottom_right[1] - op.top_left[1] > 2 * zone_padding
  /\ op.bottom_right[2] - op.top_left[2] > 2 * zone_padding
  /\ Within(op.x, op.y, op.top_left[1], op.top_left[2],
            op.bottom_right[1], op.bottom_right[2])
  /\ ~op.result

(* ------------------------- debounce properties ------------------------- *)
(* C35: the first update_person_state_buffer call of a triple creates the  *)
(* state with count 1 and reports not stable; a call whose raw value       *)
(* differs from the stored state stores the new value, resets count to 1   *)
(* and reports not stable; a call whose raw value matches increments count *)
(* and reports stable iff the new count >= min_dwell_frames; last_update   *)
(* is refreshed by every call.                                             *)
C35_Step ==
  op'.name = "update_person_state_buffer" =>
    LET old == person_state_buffer[op'.camera][op'.zone]
        new == person_state_buffer'[op'.camera][op'.zone]
        p == op'.person_id
    IN /\ p \in DOMAIN new
       /\ new[p].state = op'.is_inside
       /\ new[p].last_update = now'
       /\ IF p \notin DOMAIN old
            THEN new[p].count = 1 /\ ~op'.result
            ELSE IF old[p].state # op'.is_inside
              THEN new[p].count = 1 /\ ~op'.result
              ELSE /\ new[p].count = old[p].count + 1
                   /\ op'.result = (new[p].count >= min_dwell_frames)

C35_DebounceFunction == [][C35_Step]_vars

(* a value that was reset by a differing observation is reported stable    *)
(* at the threshold of 3 calls                                             *)
C35_Witness ==
  /\ op.name = "update_person_state_buffer"
  /\ op.result
  /\ min_dwell_frames = MaxThreshold
  /\ person_state_buffer["camera1"]["zone1"][7].count = min_dwell_frames
  /\ now > min_dwell_frames

(* -------------------------- frames properties -------------------------- *)
(* C36: a containment signal reaches the dwell state machine only after    *)
(* min_dwell_frames consecutive update_counts calls, also when an id       *)
(* appears in several observations of one batch: a dwell record, which the *)
(* first trusted inside signal creates, is not created before the frame at *)
(* tick min_dwell_frames.                                                  *)
C36_TrustedAfterFrames ==
  \A c \in DOMAIN person_dwell_tracker :
    \A z \in DOMAIN person_dwell_tracker[c] :
      \A p \in DOMAIN person_dwell_tracker[c][z] :
        person_dwell_tracker[c][z][p].entry_time >= min_dwell_frames

(* C38: after a completed update_counts call, inside_ids and inside_zones  *)
(* of every zone of the camera are the same set, which holds exactly the   *)
(* ids of the batch whose containment is stable and inside after the       *)
(* frame, and every id of it has a dwell record in state inside.           *)
C38_Step ==
  \A c \in Cameras :
    (op'.name = "update_counts" /\ op'.ok /\ op'.camera = c) =>
      \A z \in DOMAIN data'[c] :
        LET ids == data'[c][z].inside_ids
            buffer == person_state_buffer'[c][z]
            tracker == person_dwell_tracker'[c][z]
        IN /\ ids = inside_zones'[c][z]
           /\ ids \subseteq active_person_ids'
           /\ \A p \in active_person_ids' :
                (/\ p \in DOMAIN buffer
                 /\ buffer[p].state
                 /\ buffer[p].count >= min_dwell_frames) => p \in ids
           /\ \A p \in ids :
                p \in DOMAIN tracker /\ tracker[p].state = "inside"

C38_InsideIdsAreInside == [][C38_Step]_vars

(* ------------------------- scenario properties ------------------------- *)
ScenarioData == data[ScenarioCamera][ScenarioZone]

ScenarioTracker == person_dwell_tracker[ScenarioCamera][ScenarioZone]

(* the history events appended since the current run of frames began *)
EventsSinceRunStart ==
  SubSeq(ScenarioData.history, sc.base_hist + 1, Len(ScenarioData.history))

(* C2: a qualified entry is never counted for a person whose continuous    *)
(* inside period (the time since its record last became inside, by         *)
(* creation or by re-entry from exiting) is shorter than min_dwell_time.   *)
C2_NoEntryForShortStay ==
  (IsFrame /\ ScenarioPerson \in Range(entries_to_count[ScenarioZone])) =>
    now - sc.stay >= min_dwell_time

(* C6: when update_counts takes a counted record from exiting back to      *)
(* inside before exit_grace_time has elapsed, the person is in neither     *)
(* entries_to_count nor exits_to_count, no history event is appended for   *)
(* it, counted_entry stays true, entry_time is kept and the pending exit   *)
(* (exit_time) is dropped.                                                 *)
C6_Step ==
  op'.name = "update_counts" =>
    LET c == op'.camera IN
    \A z \in DOMAIN Get(data, c) :
      LET before == Tracker(c, z)
          after == person_dwell_tracker'[c][z]
      IN \A p \in DOMAIN before :
           (/\ before[p].state = "exiting"
            /\ before[p].counted_entry
            /\ now' - before[p].exit_time < exit_grace_time
            /\ p \in DOMAIN after
            /\ after[p].state = "inside") =>
             /\ after[p].counted_entry
             /\ after[p].exit_time = NoTime
             /\ after[p].entry_time = before[p].entry_time
             /\ Occ(p, entries_to_count'[z]) = 0
             /\ Occ(p, exits_to_count'[z]) = 0
             /\ Occ(p, AppendedIds(c, z)) = 0

C6_ReentryKeepsCounted == [][C6_Step]_vars

(* Scenario C: the counted person was lost and is stably inside again,     *)
(* 0.5 s after it left, within the grace period                            *)
C6_Witness ==
  /\ sc.kind = "in" /\ sc.n = min_dwell_frames
  /\ sc.had = "exiting_counted"
  /\ sc.prev_kind = "lost"
  /\ sc.since - sc.prev_since = 5
  /\ now - sc.prev_since < exit_grace_time
  /\ ScenarioPerson \in DOMAIN ScenarioTracker
  /\ ScenarioTracker[ScenarioPerson].state = "inside"
  /\ ScenarioTracker[ScenarioPerson].counted_entry
  /\ ScenarioData.in_count = sc.base_in
  /\ ScenarioData.out_count = sc.base_out

(* C27: an exiting record goes back to inside (the same record: its        *)
(* entry_time is kept) only in a frame that comes less than                *)
(* exit_grace_time after its exit_time.                                    *)
C27_Step ==
  op'.name = "update_counts" =>
    LET c == op'.camera IN
    \A z \in DOMAIN Get(data, c) :
      LET before == Tracker(c, z)
          after == person_dwell_tracker'[c][z]
      IN \A p \in DOMAIN before :
           (/\ before[p].state = "exiting"
            /\ p \in DOMAIN after
            /\ after[p].state = "inside"
            /\ after[p].entry_time = before[p].entry_time) =>
             now' - before[p].exit_time < exit_grace_time

C27_ReturnWithinGrace == [][C27_Step]_vars

(* C28: when a frame takes an exiting record back to inside, exit_time is  *)
(* cleared, entry_time and counted_entry are as before, and the dwell time *)
(* that get_current_dwell_info reports is measured from that entry_time.   *)
C28_Step ==
  \A c \in Cameras :
    (op'.name = "update_counts" /\ op'.camera = c) =>
    \A z \in DOMAIN Get(data, c) :
      LET before == Tracker(c, z)
          after == person_dwell_tracker'[c][z]
      IN \A p \in DOMAIN before :
           (/\ before[p].state = "exiting"
            /\ now' - before[p].exit_time <= DwellStaleThreshold
            /\ p \in DOMAIN after
            /\ after[p].state = "inside") =>
             /\ after[p].exit_time = NoTime
             /\ after[p].entry_time = before[p].entry_time
             /\ after[p].counted_entry = before[p].counted_entry
             /\ get_current_dwell_info(c, z, <<p>>, now)'[1].dwell_time
                  = now' - before[p].entry_time

C28_ReentryKeepsEntryTime == [][C28_Step]_vars

(* a person whose record was exiting and not counted is stably inside      *)
(* again; the record still has the entry_time from before the run          *)
C28_Witness ==
  /\ sc.kind = "in" /\ sc.n = min_dwell_frames
  /\ sc.had = "exiting_uncounted"
  /\ ScenarioPerson \in DOMAIN ScenarioTracker
  /\ ScenarioTracker[ScenarioPerson].state = "inside"
  /\ ~ScenarioTracker[ScenarioPerson].counted_entry
  /\ ScenarioTracker[ScenarioPerson].exit_time = NoTime
  /\ ScenarioTracker[ScenarioPerson].entry_time < sc.since
  /\ ScenarioTracker[ScenarioPerson].last_seen = now

(* Scenario A: a person without a dwell record has been observed inside in *)
(* 5 consecutive frames, the last one 1.2 s after the first                *)
ScenarioA ==
  /\ sc.kind = "in" /\ sc.n = 5
  /\ sc.had = "none"
  /\ now - sc.since = 12
  /\ min_dwell_frames = 3 /\ min_dwell_time = 10

EnteredOnce(k) ==
  /\ ScenarioData.in_count - sc.base_in = k
  /\ Len(EventsSinceRunStart) = k
  /\ \A i \in 1..k : /\ EventsSinceRunStart[i].id = ScenarioPerson
                     /\ EventsSinceRunStart[i].action = Entered

(* C7 as claimed: Scenario A causes exactly one in_count increment and one *)
(* Entered history record.                                                 *)
C7_ScenarioA_Claimed == ScenarioA => EnteredOnce(1)

(* C7: in Scenario A the entry is counted once if the fifth frame is at    *)
(* least min_dwell_time after the third frame (the first stable report,    *)
(* which creates the record and sets entry_time), and not at all otherwise.*)
C7_ScenarioA ==
  ScenarioA =>
    EnteredOnce(IF now - sc.third >= min_dwell_time THEN 1 ELSE 0)

C7_Witness == ScenarioA /\ EnteredOnce(1) /\ now - sc.third = min_dwell_time

(* Scenario D: a counted person inside the zone left it (kind "out": still *)
(* detected, outside; "lost": not in the frames) and has stayed out 1.5 s  *)
ScenarioD(kind) ==
  /\ sc.kind = kind
  /\ sc.had = "inside_counted"
  /\ now - sc.since = 15
  /\ exit_grace_time = 10

ExitedOnce ==
  /\ ScenarioData.out_count - sc.base_out = 1
  /\ ScenarioPerson \notin DOMAIN ScenarioTracker

(* C8 as claimed: in Scenario D out_count has risen by one and the record  *)
(* is removed, both when the person is detected outside and when lost.     *)
C8_ScenarioD_Claimed ==
  \A kind \in {"out", "lost"} : ScenarioD(kind) => ExitedOnce

(* C8: a lost counted person is counted out once and its record removed as *)
(* soon as a frame is processed exit_grace_time or more after the first    *)
(* frame without it; a counted person still detected outside is counted    *)
(* out and removed exactly when a frame is processed exit_grace_time or    *)
(* more after its third consecutive outside frame, which starts the exit.  *)
C8_ScenarioD ==
  /\ (sc.kind = "lost" /\ sc.had = "inside_counted"
        /\ now - sc.since >= exit_grace_time) => ExitedOnce
  /\ (sc.kind = "out" /\ sc.had = "inside_counted") =>
       /\ ExitedOnce <=> (/\ sc.n > min_dwell_frames
                          /\ now - sc.third >= exit_grace_time)
       /\ ScenarioData.out_count - sc.base_out <= 1

C8_Witness == ScenarioD("lost") /\ ExitedOnce

====
